---- MODULE Spec2Model ----
(***************************************************************************)
(* A model of the Data Connector tunnel engine:                            *)
(*   src/connector.py       WebSocket worker (ArrowConnectorWorker) and    *)
(*                          the pool that owns the workers (ArrowConnector)*)
(*   src/connector_grpc.py  gRPC connector (GRPCConnector)                 *)
(*   src/data_loader.py     the resident dataset (DataLoader singleton)    *)
(*                                                                         *)
(* Strings and byte strings are sequences of character codes, so that the  *)
(* base64 / UTF-8 / JSON steps of ticket decoding are computed, not        *)
(* assumed.                                                                *)
(***************************************************************************)
EXTENDS Integers, Sequences, FiniteSets, TLC

VARIABLES
    transport,            \* "ws" (connector.py) or "grpc" (connector_grpc.py)
    parallel_connections, \* config performance.parallel_connections: the number of workers of the pool
    PARALLEL_PARTITIONS,  \* config flag performance.parallel_partitions
    running,              \* worker -> self.running
    pc,                   \* worker -> position of its connect loop
    websocket,            \* worker -> index of the connection self.websocket / self.channel refers to (0: None)
    openConns,            \* worker -> indexes of its connections that are open
    channels,             \* worker -> indexes of the gRPC channels it created that are not closed
    registered,           \* worker -> a registration response with status ok was received on the current connection
    responded,            \* worker -> the Gateway has answered the register command of the current connection
    inbox,                \* worker -> messages the Gateway has sent on the current connection, not yet read
    tasks,                \* request id -> the handler task of that command (NoTask before it is created)
    sent,                 \* every frame the connector has sent (ws) or put on the outgoing queue (grpc), in order
    loader,               \* the DataLoader singleton: the resident table
    nreq,                 \* number of commands the Gateway has issued so far
    workers,              \* ArrowConnector.workers: the workers run() has created
    stop_called,          \* history: stop() of the pool has been called
    pool_returned,        \* ArrowConnector.run() has returned
    plan                  \* state of the planner harness (SpecPlan): inputs and collected outputs

vars == <<transport, parallel_connections, PARALLEL_PARTITIONS, running, pc, websocket, openConns,
          channels, registered, responded, inbox, tasks, sent, loader, nreq, workers, stop_called, pool_returned,
          plan>>

(***************************************************************************)
(* Bounds of the model.                                                    *)
(***************************************************************************)
MaxBatches == 4        \* batches of a table in the planner harness
MaxParts == 4          \* partition counts a ticket names in the planner harness
MaxWorkers == 2        \* workers a pool may hold
MaxConns == 2          \* connections a worker opens
MaxReqs == 2           \* commands the Gateway issues
MaxStreamBatches == 2  \* batches of a table that is streamed by the workers

(***************************************************************************)
(* Character codes and string literals.                                    *)
(***************************************************************************)
Digits == 48..57
Whitespace == {32, 9, 10, 13}

STR_sales == <<115, 97, 108, 101, 115>>
STR_data == <<100, 97, 116, 97>>
STR_partition == <<112, 97, 114, 116, 105, 116, 105, 111, 110>>
STR_timestamp == <<116, 105, 109, 101, 115, 116, 97, 109, 112>>
STR_rows == <<114, 111, 119, 115>>
STR_path == <<112, 97, 116, 104>>
STR_abc == <<97, 98, 99>>
STR_nofile == <<110, 111, 102, 105, 108, 101>>
STR_data_csv == STR_data \o <<46, 99, 115, 118>>
STR_total_partitions == <<116, 111, 116, 97, 108, 95>> \o STR_partition \o <<115>>

RECURSIVE DecimalDigits(_)
DecimalDigits(n) ==
    IF n < 10 THEN <<48 + n>> ELSE DecimalDigits(n \div 10) \o <<48 + (n % 10)>>

\* str(int) / the JSON text of an integer
IntText(n) == IF n < 0 THEN <<45>> \o DecimalDigits(-n) ELSE DecimalDigits(n)

(***************************************************************************)
(* base64 (Python's base64.b64encode / base64.b64decode, validate=False).  *)
(***************************************************************************)
B64Char(v) ==
    IF v < 26 THEN 65 + v
    ELSE IF v < 52 THEN 97 + (v - 26)
    ELSE IF v < 62 THEN 48 + (v - 52)
    ELSE IF v = 62 THEN 43 ELSE 47

\* the 6-bit value of an alphabet character, 64 for any other character
B64Index(c) ==
    IF c >= 65 /\ c <= 90 THEN c - 65
    ELSE IF c >= 97 /\ c <= 122 THEN c - 71
    ELSE IF c >= 48 /\ c <= 57 THEN c + 4
    ELSE IF c = 43 THEN 62
    ELSE IF c = 47 THEN 63
    ELSE 64

RECURSIVE B64Encode(_)
B64Encode(b) ==
    IF Len(b) = 0 THEN <<>>
    ELSE IF Len(b) = 1 THEN
        <<B64Char(b[1] \div 4), B64Char((b[1] % 4) * 16), 61, 61>>
    ELSE IF Len(b) = 2 THEN
        <<B64Char(b[1] \div 4), B64Char((b[1] % 4) * 16 + b[2] \div 16),
          B64Char((b[2] % 16) * 4), 61>>
    ELSE
        <<B64Char(b[1] \div 4), B64Char((b[1] % 4) * 16 + b[2] \div 16),
          B64Char((b[2] % 16) * 4 + b[3] \div 64), B64Char(b[3] % 64)>>
        \o B64Encode(SubSeq(b, 4, Len(b)))

\* One character of binascii.a2b_base64 (non-strict): st is the decoder state
\* [q: position in the quad, left: pending bits, pads, out, done].
B64Step(st, c) ==
    IF c = 61 THEN
        IF st.q >= 2 /\ st.q + st.pads + 1 >= 4
        THEN [st EXCEPT !.done = TRUE]
        ELSE [st EXCEPT !.pads = IF st.q >= 2 THEN st.pads + 1 ELSE st.pads]
    ELSE LET v == B64Index(c) IN
        IF v = 64 THEN st
        ELSE IF st.q = 0 THEN [st EXCEPT !.q = 1, !.left = v, !.pads = 0]
        ELSE IF st.q = 1 THEN
            [st EXCEPT !.q = 2, !.left = v % 16, !.pads = 0,
                       !.out = Append(st.out, st.left * 4 + v \div 16)]
        ELSE IF st.q = 2 THEN
            [st EXCEPT !.q = 3, !.left = v % 4, !.pads = 0,
                       !.out = Append(st.out, st.left * 16 + v \div 4)]
        ELSE
            [st EXCEPT !.q = 0, !.left = 0, !.pads = 0,
                       !.out = Append(st.out, st.left * 64 + v)]

RECURSIVE B64Scan(_, _, _)
B64Scan(s, i, st) ==
    IF i > Len(s) \/ st.done THEN st ELSE B64Scan(s, i + 1, B64Step(st, s[i]))

\* base64.b64decode(s) for a str s: [ok, bytes]; ok = FALSE is binascii.Error
\* (or ValueError for a non-ASCII str).
B64Decode(s) ==
    IF \E i \in 1..Len(s) : s[i] >= 128 THEN [ok |-> FALSE, bytes |-> <<>>]
    ELSE LET st == B64Scan(s, 1, [q |-> 0, left |-> 0, pads |-> 0, out |-> <<>>, done |-> FALSE])
         IN IF st.done \/ st.q = 0 THEN [ok |-> TRUE, bytes |-> st.out]
            ELSE [ok |-> FALSE, bytes |-> <<>>]

(***************************************************************************)
(* bytes.decode('utf-8'): [ok, str]; str is the sequence of code points.   *)
(***************************************************************************)
IsCont(x) == x >= 128 /\ x <= 191

RECURSIVE Utf8Scan(_, _, _)
Utf8Scan(b, i, acc) ==
    IF i > Len(b) THEN [ok |-> TRUE, str |-> acc]
    ELSE LET c == b[i]
             has(k) == i + k <= Len(b) /\ \A j \in 1..k : IsCont(b[i + j])
         IN IF c < 128 THEN Utf8Scan(b, i + 1, Append(acc, c))
            ELSE IF c >= 194 /\ c <= 223 /\ has(1)
                 THEN Utf8Scan(b, i + 2, Append(acc, (c - 192) * 64 + (b[i + 1] - 128)))
            ELSE IF c >= 224 /\ c <= 239 /\ has(2)
                    /\ (c = 224 => b[i + 1] >= 160) /\ (c = 237 => b[i + 1] <= 159)
                 THEN Utf8Scan(b, i + 3,
                        Append(acc, (c - 224) * 4096 + (b[i + 1] - 128) * 64 + (b[i + 2] - 128)))
            ELSE IF c >= 240 /\ c <= 244 /\ has(3)
                    /\ (c = 240 => b[i + 1] >= 144) /\ (c = 244 => b[i + 1] <= 143)
                 THEN Utf8Scan(b, i + 4,
                        Append(acc, (c - 240) * 262144 + (b[i + 1] - 128) * 4096
                                      + (b[i + 2] - 128) * 64 + (b[i + 3] - 128)))
            ELSE [ok |-> FALSE, str |-> <<>>]

Utf8Decode(b) == Utf8Scan(b, 1, <<>>)

(***************************************************************************)
(* JSON values and json.loads.  A value is [t, n, s, o]: t its type, n the *)
(* number of an int (0/1 of a bool), s the text of a str, o the members    *)
(* [k, v] of an object or an array (k empty in an array).  json.loads      *)
(* yields st = "ok", "error" (JSONDecodeError) or "unsupported" (input     *)
(* outside the modelled grammar: floats, string escapes, NaN/Infinity).    *)
(***************************************************************************)
JInt(n) == [t |-> "int", n |-> n, s |-> <<>>, o |-> <<>>]
JStr(s) == [t |-> "str", n |-> 0, s |-> s, o |-> <<>>]
JBool(b) == [t |-> "bool", n |-> IF b THEN 1 ELSE 0, s |-> <<>>, o |-> <<>>]
JNull == [t |-> "null", n |-> 0, s |-> <<>>, o |-> <<>>]
JObj(members) == [t |-> "obj", n |-> 0, s |-> <<>>, o |-> members]
JArr(items) == [t |-> "arr", n |-> 0, s |-> <<>>, o |-> items]

JsonOk(v, i) == [st |-> "ok", v |-> v, i |-> i]
JsonError == [st |-> "error", v |-> JNull, i |-> 0]
JsonUnsupported == [st |-> "unsupported", v |-> JNull, i |-> 0]

RECURSIVE SkipWs(_, _)
SkipWs(s, i) == IF i <= Len(s) /\ s[i] \in Whitespace THEN SkipWs(s, i + 1) ELSE i

\* index of the closing quote of a string whose text starts at j;
\* 0: unterminated or control character, -1: an escape
RECURSIVE StrEnd(_, _)
StrEnd(s, j) ==
    IF j > Len(s) THEN 0
    ELSE IF s[j] = 34 THEN j
    ELSE IF s[j] = 92 THEN -1
    ELSE IF s[j] < 32 THEN 0
    ELSE StrEnd(s, j + 1)

RECURSIVE DigitsEnd(_, _)
DigitsEnd(s, j) == IF j <= Len(s) /\ s[j] \in Digits THEN DigitsEnd(s, j + 1) ELSE j

RECURSIVE DigitsValue(_, _, _, _)
DigitsValue(s, j, e, acc) ==
    IF j >= e THEN acc ELSE DigitsValue(s, j + 1, e, acc * 10 + (s[j] - 48))

\* NUMBER_RE of json.scanner at position i (s[i] is '-' or a digit)
ParseNumber(s, i) ==
    LET neg == s[i] = 45
        d == IF neg THEN i + 1 ELSE i
    IN IF d > Len(s) \/ s[d] \notin Digits
       THEN (IF d <= Len(s) /\ s[d] = 73 THEN JsonUnsupported ELSE JsonError)
       ELSE LET e == IF s[d] = 48 THEN d + 1 ELSE DigitsEnd(s, d)
                val == DigitsValue(s, d, e, 0)
            IN IF e <= Len(s) /\ s[e] \in {46, 69, 101} THEN JsonUnsupported
               ELSE JsonOk(JInt(IF neg THEN -val ELSE val), e)

Matches(s, i, lit) == i + Len(lit) - 1 <= Len(s) /\ SubSeq(s, i, i + Len(lit) - 1) = lit

RECURSIVE ParseValue(_, _), ParseMembers(_, _, _), ParseItems(_, _, _)
ParseValue(s, i) ==
    IF i > Len(s) THEN JsonError
    ELSE LET c == s[i] IN
        IF c = 34 THEN
            LET e == StrEnd(s, i + 1) IN
            IF e = 0 THEN JsonError
            ELSE IF e = -1 THEN JsonUnsupported
            ELSE JsonOk(JStr(SubSeq(s, i + 1, e - 1)), e + 1)
        ELSE IF c = 123 THEN
            LET j == SkipWs(s, i + 1) IN
            IF j <= Len(s) /\ s[j] = 125 THEN JsonOk(JObj(<<>>), j + 1)
            ELSE ParseMembers(s, j, <<>>)
        ELSE IF c = 91 THEN
            LET j == SkipWs(s, i + 1) IN
            IF j <= Len(s) /\ s[j] = 93 THEN JsonOk(JArr(<<>>), j + 1)
            ELSE ParseItems(s, j, <<>>)
        ELSE IF Matches(s, i, <<110, 117, 108, 108>>) THEN JsonOk(JNull, i + 4)
        ELSE IF Matches(s, i, <<116, 114, 117, 101>>) THEN JsonOk(JBool(TRUE), i + 4)
        ELSE IF Matches(s, i, <<102, 97, 108, 115, 101>>) THEN JsonOk(JBool(FALSE), i + 5)
        ELSE IF c = 45 \/ c \in Digits THEN ParseNumber(s, i)
        ELSE IF c \in {78, 73} THEN JsonUnsupported
        ELSE JsonError

\* JSONObject after '{': j is at the first character of a key
ParseMembers(s, j, acc) ==
    IF j > Len(s) \/ s[j] # 34 THEN JsonError
    ELSE LET e == StrEnd(s, j + 1) IN
        IF e = 0 THEN JsonError
        ELSE IF e = -1 THEN JsonUnsupported
        ELSE LET k == SkipWs(s, e + 1) IN
            IF k > Len(s) \/ s[k] # 58 THEN JsonError
            ELSE LET r == ParseValue(s, SkipWs(s, k + 1)) IN
                IF r.st # "ok" THEN r
                ELSE LET m == SkipWs(s, r.i)
                         acc2 == Append(acc, [k |-> SubSeq(s, j + 1, e - 1), v |-> r.v])
                     IN IF m > Len(s) THEN JsonError
                        ELSE IF s[m] = 125 THEN JsonOk(JObj(acc2), m + 1)
                        ELSE IF s[m] = 44 THEN ParseMembers(s, SkipWs(s, m + 1), acc2)
                        ELSE JsonError

\* JSONArray after '[': j is at the first character of an item
ParseItems(s, j, acc) ==
    LET r == ParseValue(s, j) IN
    IF r.st # "ok" THEN r
    ELSE LET m == SkipWs(s, r.i)
             acc2 == Append(acc, [k |-> <<>>, v |-> r.v])
         IN IF m > Len(s) THEN JsonError
            ELSE IF s[m] = 93 THEN JsonOk(JArr(acc2), m + 1)
            ELSE IF s[m] = 44 THEN ParseItems(s, SkipWs(s, m + 1), acc2)
            ELSE JsonError

\* json.loads(s) for a str s
JsonLoads(s) ==
    LET r == ParseValue(s, SkipWs(s, 1)) IN
    IF r.st # "ok" THEN r
    ELSE IF SkipWs(s, r.i) <= Len(s) THEN JsonError
    ELSE r

\* json.dumps(v) of None, a bool, an int or a str without characters to escape
JsonDumps(v) ==
    CASE v.t = "null" -> <<110, 117, 108, 108>>
      [] v.t = "bool" -> IF v.n = 1 THEN <<116, 114, 117, 101>> ELSE <<102, 97, 108, 115, 101>>
      [] v.t = "int" -> IntText(v.n)
      [] OTHER -> <<34>> \o v.s \o <<34>>

\* dict.get(key, default): json.loads keeps the last of repeated keys
DictGet(obj, key, default) ==
    LET hits == {i \in 1..Len(obj.o) : obj.o[i].k = key} IN
    IF hits = {} THEN default
    ELSE obj.o[CHOOSE i \in hits : \A j \in hits : j <= i].v

(***************************************************************************)
(* The resident dataset (DataLoader).  A table is [id, rows, nbytes, lens]:*)
(* lens[k] is the length of the k-th serialized record batch, so           *)
(* Len(lens) is the number of batches to_batches() yields.  A serialized   *)
(* batch is [table, index, len].                                           *)
(***************************************************************************)
NoTable == [id |-> "None", rows |-> 0, nbytes |-> 0, lens |-> <<>>]

MB == 1024 * 1024

\* DataLoader.total_bytes / total_records / current_dataset
TotalBytes(ld) == IF ld.table # NoTable THEN ld.table.nbytes ELSE 0
TotalRecords(ld) == IF ld.table # NoTable THEN ld.table.rows ELSE 0
CurrentDataset(ld) == IF ld.current_dataset # "" THEN ld.current_dataset ELSE "None"

\* DataLoader.get_record_batches(): the serialized batches of a table, in order
GetRecordBatches(tbl) ==
    [k \in 1..Len(tbl.lens) |-> [table |-> tbl.id, index |-> k, len |-> tbl.lens[k]]]

\* pandas/pyarrow sizes of the synthetic sales table: int64 id and product_id,
\* float64 amount, and three string columns (4 offset bytes a row plus the
\* characters: 6 of store_id, 19 of date, 8 on average of status)
SyntheticBytes(rows) == rows * (8 + 8 + 8 + (4 + 6) + (4 + 19) + (4 + 8))

\* to_batches(max_chunksize = 65536): the number of record batches of a table
ChunkCount(rows) == (rows + 65535) \div 65536

SyntheticTable(rows) ==
    [id |-> "__synthetic__", rows |-> rows, nbytes |-> SyntheticBytes(rows),
     lens |-> [k \in 1..ChunkCount(rows) |-> 100 + 7 * k]]

\* DataLoader.load_or_generate_dataset(rows) for an integer rows
LoadOrGenerateDataset(ld, rows) ==
    IF ld.table # NoTable /\ ld.table.rows = rows /\ ld.current_dataset = "__synthetic__"
    THEN ld
    ELSE [table |-> SyntheticTable(rows), current_dataset |-> "__synthetic__"]

\* the extensions load_from_file knows, in its order
KnownExtensions ==
    <<<<46, 100, 117, 99, 107, 100, 98>>,
      <<46, 112, 97, 114, 113, 117, 101, 116>>,
      <<46, 112, 113>>,
      <<46, 99, 115, 118>>,
      <<46, 102, 101, 97, 116, 104, 101, 114>>,
      <<46, 97, 114, 114, 111, 119>>,
      <<46, 106, 115, 111, 110>>>>

\* str.lower() on ASCII
Lower(str) == [i \in 1..Len(str) |-> IF str[i] \in 65..90 THEN str[i] + 32 ELSE str[i]]

EndsWith(str, suffix) ==
    /\ Len(str) >= Len(suffix)
    /\ SubSeq(str, Len(str) - Len(suffix) + 1, Len(str)) = suffix

\* load_from_file: the name without the first known extension it ends with
NormalizedName(dataset_name) ==
    LET hits == {i \in 1..Len(KnownExtensions) :
                    EndsWith(Lower(dataset_name), KnownExtensions[i])} IN
    IF hits = {} THEN dataset_name
    ELSE LET i == CHOOSE i \in hits : \A j \in hits : i <= j
         IN SubSeq(dataset_name, 1, Len(dataset_name) - Len(KnownExtensions[i]))

\* the readable files of the datasets directory: stem, and the table the file
\* holds
DatasetsDir ==
    {[stem |-> STR_data, id |-> "data",
      table |-> [id |-> "data", rows |-> 500, nbytes |-> 5 * MB, lens |-> <<107>>]]}

\* the name a loaded dataset is known by (current_dataset), as text
DatasetText(ld) ==
    IF ld.current_dataset = "__synthetic__" THEN <<95, 95, 115, 121, 110, 116, 104, 101, 116, 105, 99, 95, 95>>
    ELSE IF \E f \in DatasetsDir : f.id = ld.current_dataset
         THEN (CHOOSE f \in DatasetsDir : f.id = ld.current_dataset).stem
         ELSE <<>>

\* DataLoader.load_from_file(dataset_name): [success, loader]
LoadFromFile(ld, dataset_name) ==
    LET normalized_name == NormalizedName(dataset_name) IN
    IF ld.table # NoTable /\ ld.current_dataset # "" /\ DatasetText(ld) = normalized_name
    THEN [success |-> TRUE, loader |-> ld]
    ELSE IF \E f \in DatasetsDir : f.stem = normalized_name
         THEN LET f == CHOOSE f \in DatasetsDir : f.stem = normalized_name
              IN [success |-> TRUE, loader |-> [table |-> f.table, current_dataset |-> f.id]]
         ELSE [success |-> FALSE, loader |-> ld]

\* variant: the readers regenerate the default dataset on every call
LoaderAfterRead_Regenerates(ld) == LoadOrGenerateDataset(ld, 1000000)

\* get_schema_bytes() / get_record_batches(), the loader after the call:
\* `if self._table is None: self.load_or_generate_dataset()`
LoaderAfterRead(ld) ==
    IF ld.table = NoTable THEN LoadOrGenerateDataset(ld, 1000000) ELSE ld

\* DataLoader.get_schema_bytes(): the serialised schema of the resident table.
\* A schema is known by the dataset whose columns it lists: the six columns of
\* the synthetic sales table, or the columns of a file.
GetSchemaBytes(ld) == ld.table.id

(***************************************************************************)
(* Partition planner.                                                      *)
(***************************************************************************)
\* variant: the 50MB band is missing
Partitions_WrongThreshold(total_bytes, enabled) ==
    IF enabled THEN
        IF total_bytes < 10 * MB THEN 1
        ELSE IF total_bytes < 100 * MB THEN 2
        ELSE IF total_bytes < 100 * MB THEN 4
        ELSE 8
    ELSE 1

\* variant: the thresholds are compared with <=
Partitions_InclusiveBounds(total_bytes, enabled) ==
    IF enabled THEN
        IF total_bytes <= 10 * MB THEN 1
        ELSE IF total_bytes <= 50 * MB THEN 2
        ELSE IF total_bytes <= 100 * MB THEN 4
        ELSE 8
    ELSE 1

\* _handle_get_flight_info: the partition count for a byte size
Partitions(total_bytes, enabled) ==
    IF enabled THEN
        IF total_bytes < 10 * MB THEN 1
        ELSE IF total_bytes < 50 * MB THEN 2
        ELSE IF total_bytes < 100 * MB THEN 4
        ELSE 8
    ELSE 1

\* Python's seq[start:stop] for integers start, stop (negative: from the end)
PySlice(seq, start, stop) ==
    LET n == Len(seq)
        clamp(i) == IF i < 0 THEN (IF i + n < 0 THEN 0 ELSE i + n)
                    ELSE (IF i > n THEN n ELSE i)
        a == clamp(start)
        b == clamp(stop)
    IN IF a >= b THEN <<>> ELSE SubSeq(seq, a + 1, b)

\* a value Python's int arithmetic and ordering accept (bool is an int)
IsNum(v) == v.t \in {"int", "bool"}

\* variant: every partition takes floor(N/P) batches and the last one the rest
SliceBatches_RemainderLast(all_batches, partition, total_partitions) ==
    LET total_batches == Len(all_batches) IN
    IF ~IsNum(total_partitions) THEN [ok |-> FALSE, batches |-> <<>>]
    ELSE IF total_partitions.n > 1 /\ total_batches > 1 THEN
        IF ~IsNum(partition) THEN [ok |-> FALSE, batches |-> <<>>]
        ELSE LET size == total_batches \div total_partitions.n
                 batch_start == size * partition.n
                 batch_end == IF partition.n = total_partitions.n - 1
                              THEN total_batches ELSE size * (partition.n + 1)
             IN [ok |-> TRUE, batches |-> PySlice(all_batches, batch_start, batch_end)]
    ELSE [ok |-> TRUE, batches |-> all_batches]

\* _handle_do_get: batches_to_send for (partition, total_partitions), both JSON
\* values: [ok, batches]; ok = FALSE is the TypeError of comparing or dividing a
\* value that is no number.
SliceBatches(all_batches, partition, total_partitions) ==
    LET total_batches == Len(all_batches) IN
    IF ~IsNum(total_partitions) THEN [ok |-> FALSE, batches |-> <<>>]
    ELSE IF total_partitions.n > 1 /\ total_batches > 1 THEN
        IF ~IsNum(partition) THEN [ok |-> FALSE, batches |-> <<>>]
        ELSE LET batch_start == (total_batches * partition.n) \div total_partitions.n
                 batch_end == (total_batches * (partition.n + 1)) \div total_partitions.n
             IN [ok |-> TRUE, batches |-> PySlice(all_batches, batch_start, batch_end)]
    ELSE [ok |-> TRUE, batches |-> all_batches]

(***************************************************************************)
(* Ticket codec.                                                           *)
(***************************************************************************)
\* The JSON text of {partition: i, total_partitions: P}: as json.dumps writes
\* it, or compact (no spaces after ':' and ',').
TicketJson(i, P, compact) ==
    LET sp == IF compact THEN <<>> ELSE <<32>> IN
    <<123, 34>> \o STR_partition \o <<34, 58>> \o sp \o IntText(i) \o <<44>> \o sp
    \o <<34>> \o STR_total_partitions \o <<34, 58>> \o sp \o IntText(P) \o <<125>>

\* The ticket the Gateway passes for partition i of P: base64 of the JSON text
EncodeTicket(i, P, compact) == JStr(B64Encode(TicketJson(i, P, compact)))

\* Python truthiness of a JSON value (`if ticket:`)
Truthy(v) ==
    CASE v.t = "null" -> FALSE
      [] v.t = "str" -> Len(v.s) > 0
      [] v.t \in {"int", "bool"} -> v.n # 0
      [] OTHER -> Len(v.o) > 0

\* ticket[:50] in the except-handler's log line raises for a ticket that
\* cannot be sliced (connector.py only; connector_grpc.py logs a constant)
LogSliceRaises(tr, ticket) == tr = "ws" /\ ticket.t \notin {"str", "arr"}

\* partition = 0, total_partitions = 1
TicketDefaults == [partition |-> JInt(0), total_partitions |-> JInt(1), raised |-> FALSE]

\* variant: the two keys are read the other way round
DecodeTicket_SwappedKeys(tr, ticket) ==
    LET text == Utf8Decode(B64Decode(ticket.s).bytes)
        data == JsonLoads(text.str)
    IN IF ticket.t = "str" /\ B64Decode(ticket.s).ok /\ text.ok /\ data.st = "ok" /\ data.v.t = "obj"
       THEN [partition |-> DictGet(data.v, STR_total_partitions, JInt(0)),
             total_partitions |-> DictGet(data.v, STR_partition, JInt(1)),
             raised |-> FALSE]
       ELSE TicketDefaults

\* _handle_do_get, the decoding of the ticket: [partition, total_partitions,
\* raised]; raised = TRUE: an exception leaves the handler.
DecodeTicket(tr, ticket) ==
    IF ~Truthy(ticket) THEN TicketDefaults
    ELSE IF ticket.t # "str" THEN [TicketDefaults EXCEPT !.raised = LogSliceRaises(tr, ticket)]
    ELSE LET ticket_bytes == B64Decode(ticket.s) IN
        IF ~ticket_bytes.ok THEN TicketDefaults
        ELSE LET text == Utf8Decode(ticket_bytes.bytes) IN
            IF ~text.ok THEN TicketDefaults
            ELSE LET ticket_data == JsonLoads(text.str) IN
                IF ticket_data.st # "ok" \/ ticket_data.v.t # "obj" THEN TicketDefaults
                ELSE [partition |-> DictGet(ticket_data.v, STR_partition, JInt(0)),
                      total_partitions |-> DictGet(ticket_data.v, STR_total_partitions, JInt(1)),
                      raised |-> FALSE]

\* _handle_do_get without its sends: the decoded ticket and the slice of the
\* resident table's batches it selects.
DoGetPlan(tr, ticket, tbl) ==
    LET d == DecodeTicket(tr, ticket)
        sl == SliceBatches(GetRecordBatches(tbl), d.partition, d.total_partitions)
    IN [raised |-> d.raised, partition |-> d.partition,
        total_partitions |-> d.total_partitions, ok |-> sl.ok, batches |-> sl.batches]

(***************************************************************************)
(* get_flight_info: the dataset the descriptor selects.                    *)
(***************************************************************************)
\* int(v): "ok" with the value, "ValueError" (a str that is no integer
\* literal), "TypeError" (None, a list, a dict)
PyInt(v) ==
    CASE v.t \in {"int", "bool"} -> [st |-> "ok", n |-> v.n]
      [] v.t = "str" ->
            IF Len(v.s) > 0 /\ \A i \in 1..Len(v.s) : v.s[i] \in Digits
            THEN [st |-> "ok", n |-> DigitsValue(v.s, 1, Len(v.s) + 1, 0)]
            ELSE [st |-> "ValueError", n |-> 0]
      [] OTHER -> [st |-> "TypeError", n |-> 0]

\* path[0] for a truthy path: [ok, v]; ok = FALSE is the TypeError / KeyError
\* of indexing a number or a dict
FirstOf(path) ==
    CASE path.t = "arr" -> [ok |-> TRUE, v |-> path.o[1].v]
      [] path.t = "str" -> [ok |-> TRUE, v |-> JStr(<<path.s[1]>>)]
      [] OTHER -> [ok |-> FALSE, v |-> JNull]

\* int(rows) is inside try/except ValueError in the WebSocket handler only
RowsErrorCaught(tr) == tr = "ws"

\* load_or_generate_dataset(rows = rows) with the number of the descriptor as
\* it is, not passed through int().  ws: a JSON integer, the table is
\* generated.  grpc: every number of a Struct is a float; the table that is
\* resident is kept when it has that many rows, and generating a new one
\* raises TypeError (a float is no array size).
GeneratesWith(tr, ld, rows) == tr = "ws" \/ LoadOrGenerateDataset(ld, rows) = ld

\* The part of _handle_get_flight_info before the response is built:
\* [raised, loader].  descriptor is the command's descriptor (ws, None when
\* the command has none) or its get_flight_info envelope (grpc, {} when the
\* command has none).  Row counts are positive integers or strings.
FlightInfoLoad(tr, ld, descriptor) ==
    LET d == IF tr = "grpc" /\ descriptor.t = "null" THEN JObj(<<>>) ELSE descriptor
        path == DictGet(d, STR_path, JArr(<<>>))
        first == IF Truthy(path) THEN FirstOf(path) ELSE [ok |-> TRUE, v |-> JNull]
        dataset_name == first.v
        rows == DictGet(d, STR_rows, JNull)
        Raised == [raised |-> TRUE, loader |-> ld]
        Done(l) == [raised |-> FALSE, loader |-> l]
    IN
    IF d.t # "obj" THEN Raised                  \* descriptor.get: AttributeError
    ELSE IF ~first.ok THEN Raised
    ELSE IF Truthy(dataset_name) /\ dataset_name # JStr(STR_sales) THEN
        IF dataset_name.t # "str" THEN Raised   \* dataset_name.lower()
        ELSE LET f == LoadFromFile(ld, dataset_name.s) IN
             IF f.success THEN Done(f.loader)
             ELSE IF ~Truthy(rows) THEN Done(LoadOrGenerateDataset(ld, 1000000))
             ELSE IF rows.t # "int" THEN Raised \* np.arange(rows) of a str
             ELSE IF GeneratesWith(tr, ld, rows.n)
                  THEN Done(LoadOrGenerateDataset(ld, rows.n))
                  ELSE Raised                   \* randint(size = rows) of a float
    ELSE IF Truthy(rows) THEN
        LET n == PyInt(rows) IN
        IF n.st = "ok" THEN Done(LoadOrGenerateDataset(ld, n.n))
        ELSE IF n.st = "ValueError" /\ RowsErrorCaught(tr)
             THEN Done(LoadOrGenerateDataset(ld, 1000000))
             ELSE Raised
    ELSE IF TotalRecords(ld) = 0 THEN Done(LoadOrGenerateDataset(ld, 1000000))
    ELSE Done(ld)

(***************************************************************************)
(* Workers, connections, tasks: the state after construction.              *)
(***************************************************************************)
Workers == 1..MaxWorkers
ReqIds == 1..MaxReqs

NoTask ==
    [action |-> "none", pc |-> "none", worker |-> 0, conn |-> 0, ticket |-> JNull,
     partition |-> JInt(0), total_partitions |-> JInt(1), batches_to_send |-> <<>>,
     idx |-> 0, total_bytes |-> 0, failed |-> FALSE, body |-> JNull]

IdlePlan ==
    [kind |-> "idle", P |-> 0, p |-> 0, compact |-> FALSE, ticket |-> JNull,
     out |-> <<>>, info |-> <<>>]

\* ArrowConnectorWorker.__init__ / GRPCConnector.__init__ for every worker
WorkersConstructed ==
    /\ running = [w \in Workers |-> FALSE]
    /\ pc = [w \in Workers |-> "init"]
    /\ websocket = [w \in Workers |-> 0]
    /\ openConns = [w \in Workers |-> {}]
    /\ channels = [w \in Workers |-> {}]
    /\ registered = [w \in Workers |-> FALSE]
    /\ responded = [w \in Workers |-> FALSE]
    /\ inbox = [w \in Workers |-> <<>>]
    /\ tasks = [r \in ReqIds |-> NoTask]
    /\ sent = <<>>
    /\ nreq = 0

workerVars == <<running, pc, websocket, openConns, registered, responded, inbox, tasks, sent, nreq>>
configVars == <<transport, parallel_connections, PARALLEL_PARTITIONS>>
poolVars == <<workers, stop_called, pool_returned>>

\* ArrowConnector.run() has created its workers (a GRPCConnector is its own
\* single worker) and stop() has not been called
PoolRunning ==
    /\ workers = 1..parallel_connections
    /\ stop_called = FALSE
    /\ pool_returned = FALSE

(***************************************************************************)
(* The planner harness (SpecPlan): the pure parts of the handlers applied  *)
(* to inputs drawn from bounded sets.                                      *)
(*   kind "partitions": one do_get per partition p = 0..P-1 of a table of  *)
(*                      N batches, with the tickets the Gateway encodes    *)
(*   kind "plain":      one do_get with a ticket that is no structured     *)
(*                      ticket                                             *)
(*   kind "odd":        one do_get with a ticket that is no non-empty      *)
(*                      string                                             *)
(*   kind "info":       get_flight_info's partition count for the resident *)
(*                      table, before and after the provider swaps tables  *)
(***************************************************************************)
PlanSizes ==
    {0, 1, 10 * MB - 1, 10 * MB, 10 * MB + 1, 50 * MB - 1, 50 * MB, 75 * MB, 80 * MB,
     85 * MB, 100 * MB - 1, 100 * MB, 100 * MB + 1, 1000 * MB}

PlanTable(N, size) ==
    [id |-> "__synthetic__", rows |-> N, nbytes |-> size, lens |-> [k \in 1..N |-> 100 + 7 * k]]

\* tickets that are not the base64 of a JSON object: bare names, base64 of
\* text that is no JSON, raw JSON, base64 of a JSON number
PlainTickets ==
    {JStr(STR_sales), JStr(STR_data), JStr(B64Encode(STR_sales)),
     JStr(TicketJson(1, 2, TRUE)), JStr(TicketJson(1, 2, FALSE)),
     JStr(B64Encode(<<49, 50, 51>>)), JStr(<<115, 97, 108, 61, 101, 115>>)}

\* ticket values that are no non-empty string: missing (None), empty, and the
\* other JSON values a command can carry in the ticket field
OddTickets ==
    {JNull, JStr(<<>>), JInt(0), JInt(5), JBool(FALSE), JBool(TRUE),
     JArr(<<>>), JArr(<<JInt(1)>>), JObj(<<>>),
     JObj(<<[k |-> STR_partition, v |-> JInt(1)]>>)}

InitPlan ==
    /\ transport \in {"ws", "grpc"}
    /\ parallel_connections = 1
    /\ PARALLEL_PARTITIONS \in BOOLEAN
    /\ WorkersConstructed
    /\ PoolRunning
    /\ \E N \in 1..MaxBatches, size \in PlanSizes :
          loader = [table |-> PlanTable(N, size), current_dataset |-> "__synthetic__"]
    /\ plan \in {[IdlePlan EXCEPT !.kind = "partitions", !.P = P, !.compact = c] :
                    P \in 1..MaxParts, c \in BOOLEAN}
                \cup {[IdlePlan EXCEPT !.kind = "plain", !.ticket = t] : t \in PlainTickets}
                \cup {[IdlePlan EXCEPT !.kind = "odd", !.ticket = t] : t \in OddTickets}
                \cup {[IdlePlan EXCEPT !.kind = "info"]}

\* the do_get of the next partition, with the ticket encoded for it
PlanDoGet ==
    /\ plan.kind = "partitions"
    /\ plan.p < plan.P
    /\ plan' = [plan EXCEPT
                  !.out = Append(@, DoGetPlan(transport,
                                    EncodeTicket(plan.p, plan.P, plan.compact), loader.table)),
                  !.p = @ + 1]
    /\ UNCHANGED <<configVars, poolVars, channels, workerVars, loader>>

\* a do_get with a plain ticket
PlanDoGetPlain ==
    /\ plan.kind \in {"plain", "odd"}
    /\ plan.out = <<>>
    /\ plan' = [plan EXCEPT !.out = <<DoGetPlan(transport, plan.ticket, loader.table)>>]
    /\ UNCHANGED <<configVars, poolVars, channels, workerVars, loader>>

\* get_flight_info's total_bytes and partitions for the resident table
PlanFlightInfo ==
    /\ plan.kind = "info"
    /\ Len(plan.info) < 2
    /\ plan' = [plan EXCEPT
                  !.info = Append(@, [total_bytes |-> TotalBytes(loader),
                                      partitions |-> Partitions(TotalBytes(loader), PARALLEL_PARTITIONS)]),
                  !.p = @ + 1]
    /\ UNCHANGED <<configVars, poolVars, channels, workerVars, loader>>

\* the provider makes another table resident between two requests
PlanSwapTable ==
    /\ plan.kind = "info"
    /\ Len(plan.info) = 1
    /\ plan.p = 1
    /\ \E size \in PlanSizes :
          loader' = [loader EXCEPT !.table = PlanTable(1, size)]
    /\ UNCHANGED <<configVars, poolVars, channels, workerVars, plan>>

NextPlan == PlanDoGet \/ PlanDoGetPlain \/ PlanFlightInfo \/ PlanSwapTable

SpecPlan == InitPlan /\ [][NextPlan]_vars

(***************************************************************************)
(* Frames and messages.                                                    *)
(*   A frame is what the connector sends: on the WebSocket a text frame    *)
(*   (JSON) or a binary frame, on gRPC an envelope put on the outgoing     *)
(*   queue.  req is the request_id the frame carries (0: none, as in a     *)
(*   binary WebSocket frame); by is the request whose handler sent it.     *)
(*   A message is what the Gateway sends: the registration response, a     *)
(*   command, or bytes that do not parse.                                  *)
(***************************************************************************)
NoBatch == [table |-> "", index |-> 0, len |-> 0]

Frame(w, c, kind, req, by) ==
    [w |-> w, conn |-> c, kind |-> kind, req |-> req, by |-> by, error |-> FALSE,
     partition |-> JNull, total_partitions |-> JNull, total_bytes |-> 0,
     batch |-> NoBatch, wire_len |-> 0, partitions |-> 0,
     tenant_id |-> "", timestamp |-> JNull, schema |-> "", dataset |-> ""]

Message(type, status, action, request_id, ticket) ==
    [type |-> type, status |-> status, action |-> action,
     request_id |-> request_id, ticket |-> ticket, body |-> JObj(<<>>)]

RegisterResponse(status) == Message("register_response", status, "", 0, JNull)
Garbage == Message("garbage", "", "", 0, JNull)

\* tickets of the do_get commands the Gateway issues to the workers
StreamTickets == {JStr(STR_sales), EncodeTicket(1, 2, FALSE)}

Commands(request_id) ==
    {Message("command", "", "do_get", request_id, t) : t \in StreamTickets}
    \cup {Message("command", "", "get_flight_info", request_id, JNull),
          Message("command", "", "heartbeat", request_id, JNull)}

\* tables that are resident when the workers start
StreamTables ==
    {[id |-> "__synthetic__", rows |-> 1000 * N, nbytes |-> 20 * MB * N,
      lens |-> [k \in 1..N |-> 100 + 7 * k]] : N \in {MaxStreamBatches}}

IsOpen(w) == websocket[w] \in openConns[w]
ActiveWorkers == 1..parallel_connections
Running(r) == tasks[r].pc \notin {"none", "done"}

(***************************************************************************)
(* The connect loop: ArrowConnectorWorker.connect_and_run, GRPCConnector.run *)
(***************************************************************************)
\* variant: the loop returns after the first connection
AfterConnectionEnd_NoRetry(w) == "exited"

\* variant: the loop re-dials at once
AfterConnectionEnd_NoDelay(w) == IF running[w] THEN "connecting" ELSE "exited"

\* after the try block of one iteration: `if self.running: await sleep(...)`,
\* else the loop test fails and the coroutine returns
AfterConnectionEnd(w) == IF running[w] THEN "sleeping" ELSE "exited"

\* the loop test `while self.running` followed by the dial
LoopTest(w) == IF running[w] THEN "connecting" ELSE "exited"

\* connect_and_run() / run() is entered: self.running = True, first loop test
Start(w) ==
    /\ w \in workers
    /\ pc[w] = "init"
    /\ running' = [running EXCEPT ![w] = TRUE]
    /\ pc' = [pc EXCEPT ![w] = "connecting"]
    /\ UNCHANGED <<configVars, poolVars, channels, websocket, openConns, registered, responded, inbox,
                   tasks, sent, loader, nreq, plan>>

\* ws, stop(): self.running = False.
\* grpc, stop(): self.running = False, and the channel is closed, which ends
\* the stream.  In run() there is no suspension point between the loop test and
\* the start of the stream, so stop() does not run there.
Stop(w) ==
    /\ running[w]
    /\ transport = "grpc" => pc[w] # "connecting"
    /\ running' = [running EXCEPT ![w] = FALSE]
    /\ IF transport = "grpc"
       THEN /\ openConns' = [openConns EXCEPT ![w] = @ \ {websocket[w]}]
            /\ channels' = [channels EXCEPT ![w] = @ \ {websocket[w]}]
            /\ inbox' = [inbox EXCEPT ![w] = <<>>]
       ELSE UNCHANGED <<openConns, channels, inbox>>
    /\ UNCHANGED <<configVars, poolVars, pc, websocket, registered, responded,
                   tasks, sent, loader, nreq, plan>>

\* variant: the register command is sent twice
RegisterFrames_Twice(w, c) == <<Frame(w, c, "register", 0, 0), Frame(w, c, "register", 0, 0)>>

\* what a worker sends when its connection c is established: the register
\* command, once (_register; the put before the stream starts)
RegisterFrames(w, c) == <<Frame(w, c, "register", 0, 0)>>

\* grpc, `self.channel = grpc.aio.insecure_channel(...)`: the open channels of
\* the worker afterwards.  run() closes nothing; the channels it no longer
\* refers to stay open unless the runtime has finalised them (kept: those it
\* has not).
NewChannel(w, c, kept) == kept \cup {c}

\* ws: websockets.connect() succeeds, self.websocket = websocket, and
\* _register() sends the register command and waits for the response.
\* grpc: the channel and the outgoing queue are created, the register message
\* is put on the queue, the stream is started and the loop waits for a command.
Connect(w) ==
    /\ pc[w] = "connecting"
    /\ websocket[w] < MaxConns
    /\ LET c == websocket[w] + 1 IN
        /\ websocket' = [websocket EXCEPT ![w] = c]
        /\ openConns' = [openConns EXCEPT ![w] = @ \cup {c}]
        /\ IF transport = "grpc"
           THEN \E kept \in SUBSET channels[w] :
                    channels' = [channels EXCEPT ![w] = NewChannel(w, c, kept)]
           ELSE UNCHANGED channels
        /\ sent' = sent \o RegisterFrames(w, c)
    /\ registered' = [registered EXCEPT ![w] = FALSE]
    /\ responded' = [responded EXCEPT ![w] = FALSE]
    /\ inbox' = [inbox EXCEPT ![w] = <<>>]
    /\ pc' = [pc EXCEPT ![w] = IF transport = "ws" THEN "registering" ELSE "active"]
    /\ UNCHANGED <<configVars, poolVars, running, tasks, loader, nreq, plan>>

\* ws: the dial fails (OSError): caught in connect_and_run
ConnectFail(w) ==
    /\ pc[w] = "connecting"
    /\ transport = "ws"
    /\ pc' = [pc EXCEPT ![w] = AfterConnectionEnd(w)]
    /\ UNCHANGED <<configVars, poolVars, channels, running, websocket, openConns, registered, responded,
                   inbox, tasks, sent, loader, nreq, plan>>

\* asyncio.sleep(RECONNECT_DELAY) returns; the loop test follows
Wake(w) ==
    /\ pc[w] = "sleeping"
    /\ pc' = [pc EXCEPT ![w] = LoopTest(w)]
    /\ UNCHANGED <<configVars, poolVars, channels, running, websocket, openConns, registered, responded,
                   inbox, tasks, sent, loader, nreq, plan>>

\* the iteration of the connect loop ends: the connection is closed (ws: the
\* `async with` block is left; grpc: the stream is abandoned) and the worker
\* sleeps or returns
EndIteration(w) ==
    /\ openConns' = [openConns EXCEPT ![w] = @ \ {websocket[w]}]
    /\ inbox' = [inbox EXCEPT ![w] = <<>>]
    /\ pc' = [pc EXCEPT ![w] = AfterConnectionEnd(w)]

\* ws, _register(): the first message received is taken as the response;
\* status ok enters the message loop, anything else (another status, a command,
\* text that is no JSON) ends the iteration
RegisterRecv(w) ==
    /\ transport = "ws"
    /\ pc[w] = "registering"
    /\ IsOpen(w)
    /\ inbox[w] # <<>>
    /\ IF Head(inbox[w]).type = "register_response" /\ Head(inbox[w]).status = "ok"
       THEN /\ registered' = [registered EXCEPT ![w] = TRUE]
            /\ inbox' = [inbox EXCEPT ![w] = Tail(@)]
            /\ pc' = [pc EXCEPT ![w] = "active"]
            /\ UNCHANGED openConns
       ELSE /\ EndIteration(w)
            /\ UNCHANGED registered
    /\ UNCHANGED <<configVars, poolVars, channels, running, websocket, responded, tasks, sent, loader, nreq, plan>>

\* the transport fails or the peer closes the connection
ConnectionLost(w) ==
    /\ IsOpen(w)
    /\ openConns' = [openConns EXCEPT ![w] = @ \ {websocket[w]}]
    /\ inbox' = [inbox EXCEPT ![w] = <<>>]
    /\ UNCHANGED <<configVars, poolVars, channels, running, pc, websocket, registered, responded,
                   tasks, sent, loader, nreq, plan>>

\* the pending read raises ConnectionClosed / grpc.RpcError: caught in
\* connect_and_run / run.  On gRPC the loop reads only between handlers.
ReadFails(w) ==
    /\ pc[w] \in {"registering", "active"}
    /\ ~IsOpen(w)
    /\ transport = "grpc" => \A r \in ReqIds : tasks[r].worker = w => ~Running(r)
    /\ pc' = [pc EXCEPT ![w] = AfterConnectionEnd(w)]
    /\ UNCHANGED <<configVars, poolVars, channels, running, websocket, openConns, registered, responded,
                   inbox, tasks, sent, loader, nreq, plan>>

(***************************************************************************)
(* The Gateway.                                                            *)
(***************************************************************************)
\* the Gateway answers the register command
GatewayRespond(w, status) ==
    /\ IsOpen(w)
    /\ ~responded[w]
    /\ responded' = [responded EXCEPT ![w] = TRUE]
    /\ inbox' = [inbox EXCEPT ![w] = Append(@, RegisterResponse(status))]
    /\ UNCHANGED <<configVars, poolVars, channels, running, pc, websocket, openConns, registered,
                   tasks, sent, loader, nreq, plan>>

\* the Gateway issues a command (or bytes that do not parse) with a fresh
\* request id
GatewaySend(w, m) ==
    /\ IsOpen(w)
    /\ nreq < MaxReqs
    /\ nreq' = nreq + 1
    /\ inbox' = [inbox EXCEPT ![w] = Append(@, m)]
    /\ UNCHANGED <<configVars, poolVars, channels, running, pc, websocket, openConns, registered, responded,
                   tasks, sent, loader, plan>>

(***************************************************************************)
(* The read loop: _message_loop (ws), the `async for` of _connect_and_run  *)
(* (grpc).                                                                 *)
(***************************************************************************)
NewTask(w, m) ==
    [NoTask EXCEPT !.action = m.action, !.pc = "start", !.worker = w,
                   !.conn = websocket[w], !.ticket = m.ticket, !.body = m.body]

\* variant: the gRPC loop reads on while a handler is running
MayRead_WhileHandling(w) == TRUE

\* ws: every message read is handed to a task of its own (asyncio.create_task)
\* and the loop reads on.  grpc: the handler is awaited, so the next message is
\* read only when no handler of this worker is running.
MayRead(w) ==
    transport = "grpc" => \A r \in ReqIds : tasks[r].worker = w => ~Running(r)

\* one message is read in the Active state
Recv(w) ==
    /\ pc[w] = "active"
    /\ IsOpen(w)
    /\ inbox[w] # <<>>
    /\ MayRead(w)
    /\ LET m == Head(inbox[w]) IN
        IF m.type = "garbage" THEN
            \* json.loads / ParseFromString raises: the exception leaves the loop
            /\ EndIteration(w)
            /\ UNCHANGED <<registered, tasks>>
        ELSE IF m.type = "register_response" THEN
            \* ws: no action matches, nothing is done.  grpc: _handle_command logs it
            /\ registered' = [registered EXCEPT
                                ![w] = @ \/ (transport = "grpc" /\ m.status = "ok")]
            /\ inbox' = [inbox EXCEPT ![w] = Tail(@)]
            /\ UNCHANGED <<pc, openConns, tasks>>
        ELSE
            /\ tasks' = [tasks EXCEPT ![m.request_id] = NewTask(w, m)]
            /\ inbox' = [inbox EXCEPT ![w] = Tail(@)]
            /\ UNCHANGED <<pc, openConns, registered>>
    /\ UNCHANGED <<configVars, poolVars, channels, running, websocket, responded, sent, loader, nreq, plan>>

(***************************************************************************)
(* The handlers: _handle_message / _handle_command and what they call.     *)
(* One action is the code between two suspension points, up to and         *)
(* including the next send.                                                *)
(***************************************************************************)
\* ws: websocket.send() raises ConnectionClosed on a closed connection.
\* grpc: outgoing.put() on the unbounded queue always succeeds.
SendOk(t) == transport = "grpc" \/ IsOpen(t.worker)

\* ws: the frame goes to whatever self.websocket is when it is sent.
\* grpc: to the outgoing queue of the stream the command came from.
Out(t) == IF transport = "ws" THEN websocket[t.worker] ELSE t.conn

\* an exception leaves the handler.  ws: the task ends, nobody awaits it.
\* grpc: it leaves _connect_and_run and is caught in run: the iteration ends.
Escape(r) ==
    /\ tasks' = [tasks EXCEPT ![r].pc = "done", ![r].failed = TRUE]
    /\ IF transport = "grpc"
       THEN EndIteration(tasks[r].worker)
       ELSE UNCHANGED <<pc, openConns, inbox>>

\* the frame that reports a failed do_get: ws {request_id, status: error, error},
\* grpc stream_status {type: stream_end, error}
ErrorFrame(t, r) ==
    [Frame(t.worker, Out(t), IF transport = "ws" THEN "error" ELSE "stream_end", r, r)
        EXCEPT !.error = TRUE]

\* len(base64.b64encode(b)) for n = len(b)
B64Len(n) == 4 * ((n + 2) \div 3)

\* the frame that carries one batch: ws a binary frame of the batch bytes,
\* without request id; grpc an arrow_chunk envelope with the request id and the
\* base64 text of the batch bytes
BatchFrame(t, r, b) ==
    [Frame(t.worker, Out(t), IF transport = "ws" THEN "binary" ELSE "arrow_chunk",
           IF transport = "ws" THEN 0 ELSE r, r)
        EXCEPT !.batch = b,
               !.wire_len = IF transport = "ws" THEN b.len ELSE B64Len(b.len)]

\* _handle_do_get up to the stream_start frame
HandleDoGetStart(r) ==
    /\ tasks[r].pc = "start"
    /\ tasks[r].action = "do_get"
    /\ LET t == tasks[r]
           d == DecodeTicket(transport, t.ticket)
       IN \* get_schema_bytes() is called after the decoding, before the send
          /\ loader' = IF d.raised THEN loader ELSE LoaderAfterRead(loader)
          /\ IF d.raised \/ ~SendOk(t)
             THEN Escape(r) /\ UNCHANGED sent
             ELSE /\ sent' = Append(sent,
                        [Frame(t.worker, Out(t), "stream_start", r, r)
                           EXCEPT !.schema = GetSchemaBytes(LoaderAfterRead(loader)),
                                  !.partition = d.partition,
                                  !.total_partitions = d.total_partitions])
                  /\ tasks' = [tasks EXCEPT ![r].pc = "fetch", ![r].partition = d.partition,
                                            ![r].total_partitions = d.total_partitions]
                  /\ UNCHANGED <<pc, openConns, inbox>>
    /\ UNCHANGED <<configVars, poolVars, channels, running, websocket, registered, responded, nreq, plan>>

\* variant: the failure of one request ends every request of the worker
FailDoGet_TearsDown(r) ==
    /\ sent' = Append(sent, ErrorFrame(tasks[r], r))
    /\ tasks' = [q \in ReqIds |->
                   IF tasks[q].worker = tasks[r].worker /\ tasks[q].pc # "none"
                   THEN [tasks[q] EXCEPT !.pc = "done", !.failed = (q = r) \/ tasks[q].failed]
                   ELSE tasks[q]]
    /\ UNCHANGED <<pc, openConns, inbox>>

\* the except branch of _handle_do_get: the error frame is sent; on a closed
\* WebSocket that send raises again and the exception leaves the handler
FailDoGet(r) ==
    IF SendOk(tasks[r])
    THEN /\ sent' = Append(sent, ErrorFrame(tasks[r], r))
         /\ tasks' = [tasks EXCEPT ![r].pc = "done", ![r].failed = TRUE]
         /\ UNCHANGED <<pc, openConns, inbox>>
    ELSE Escape(r) /\ UNCHANGED sent

\* variant: the loop does not advance after the first batch
NextBatch_Repeat(idx) == IF idx = 0 THEN 1 ELSE idx

\* `for batch_bytes in batches_to_send`: the index of the batch that is sent
\* after `idx` batches were sent
NextBatch(idx) == idx + 1

\* variant: the frames are counted, not their bytes
AddBytes_CountsFrames(total_bytes, b) == total_bytes + 1

\* total_bytes += len(batch_bytes)
AddBytes(total_bytes, b) == total_bytes + b.len

\* one turn of the send loop of task t (request r): the next batch, or after
\* the last one the stream_end frame; a send that raises (the connection is
\* closed, or `raises`: an exception injected inside the try block) enters the
\* except branch
SendNext(r, t, raises) ==
    IF raises \/ ~SendOk(t) THEN FailDoGet(r)
    ELSE IF t.idx < Len(t.batches_to_send) THEN
        /\ sent' = Append(sent, BatchFrame(t, r, t.batches_to_send[NextBatch(t.idx)]))
        /\ tasks' = [tasks EXCEPT
                       ![r] = [t EXCEPT !.idx = @ + 1,
                                        !.total_bytes =
                                            AddBytes(@, t.batches_to_send[NextBatch(t.idx)])]]
        /\ UNCHANGED <<pc, openConns, inbox>>
    ELSE
        /\ sent' = Append(sent, [Frame(t.worker, Out(t), "stream_end", r, r)
                                   EXCEPT !.partition = t.partition,
                                          !.total_bytes = t.total_bytes])
        /\ tasks' = [tasks EXCEPT ![r] = [t EXCEPT !.pc = "done"]]
        /\ UNCHANGED <<pc, openConns, inbox>>

\* the handler resumes after the stream_start send: get_record_batches(), the
\* slice of this partition, and the first send of the loop, with no suspension
\* point in between; raises: the provider or that first send raises
HandleDoGetFetch(r, raises) ==
    /\ tasks[r].pc = "fetch"
    /\ LET t == tasks[r]
           sl == SliceBatches(GetRecordBatches(LoaderAfterRead(loader).table),
                              t.partition, t.total_partitions)
       IN IF ~sl.ok
          THEN FailDoGet(r)
          ELSE SendNext(r, [t EXCEPT !.pc = "stream", !.batches_to_send = sl.batches], raises)
    /\ loader' = LoaderAfterRead(loader)
    /\ UNCHANGED <<configVars, poolVars, channels, running, websocket, registered, responded, nreq, plan>>

\* the handler resumes after `await asyncio.sleep(0)`: the next turn of the loop
HandleDoGetStream(r) ==
    /\ tasks[r].pc = "stream"
    /\ SendNext(r, tasks[r], FALSE)
    /\ UNCHANGED <<configVars, poolVars, channels, running, websocket, registered, responded, loader, nreq, plan>>

\* _handle_get_flight_info: the descriptor's dataset is made resident, then
\* the flight_info frame is sent.  There is no suspension point before the send.
HandleGetFlightInfo(r) ==
    /\ tasks[r].pc = "start"
    /\ tasks[r].action = "get_flight_info"
    /\ LET t == tasks[r]
           fl == FlightInfoLoad(transport, loader, t.body)
       IN /\ loader' = fl.loader
          /\ IF ~fl.raised /\ SendOk(t)
             THEN /\ sent' = Append(sent,
                        [Frame(t.worker, Out(t), "flight_info", r, r)
                           EXCEPT !.schema = GetSchemaBytes(fl.loader),
                                  !.dataset = CurrentDataset(fl.loader),
                                  !.total_bytes = TotalBytes(fl.loader),
                                  !.partitions = Partitions(TotalBytes(fl.loader),
                                                            PARALLEL_PARTITIONS)])
                  /\ tasks' = [tasks EXCEPT ![r].pc = "done"]
                  /\ UNCHANGED <<pc, openConns, inbox>>
             ELSE Escape(r) /\ UNCHANGED sent
    /\ UNCHANGED <<configVars, poolVars, channels, running, websocket, registered, responded, nreq, plan>>

\* the tenant id the connector was constructed with; every worker has it
TENANT_ID == "tenant_a"

\* variant: the reply carries a fixed timestamp
HeartbeatTimestamp_Zero(tr, body) == JInt(0)

\* the timestamp of the reply.  ws: msg.get("timestamp") of the command, sent
\* as JSON text.  grpc: command.get("heartbeat", {}).get("timestamp", 0); the
\* value is a number of the command's Struct and goes into the reply's Struct.
HeartbeatTimestamp(tr, body) ==
    IF tr = "ws" THEN JsonLoads(JsonDumps(DictGet(body, STR_timestamp, JNull))).v
    ELSE DictGet(IF body.t = "null" THEN JObj(<<>>) ELSE body, STR_timestamp, JInt(0))

\* the heartbeat echo: ws {action, tenant_id, timestamp} (no request id),
\* grpc an envelope with the request id
HandleHeartbeat(r) ==
    /\ tasks[r].pc = "start"
    /\ tasks[r].action = "heartbeat"
    /\ LET t == tasks[r] IN
        IF SendOk(t)
        THEN /\ sent' = Append(sent,
                   [Frame(t.worker, Out(t), "heartbeat", IF transport = "ws" THEN 0 ELSE r, r)
                      EXCEPT !.tenant_id = TENANT_ID,
                             !.timestamp = HeartbeatTimestamp(transport, t.body)])
             /\ tasks' = [tasks EXCEPT ![r].pc = "done"]
             /\ UNCHANGED <<pc, openConns, inbox>>
        ELSE Escape(r) /\ UNCHANGED sent
    /\ UNCHANGED <<configVars, poolVars, channels, running, websocket, registered, responded, loader, nreq, plan>>

\* the actions _handle_message / _handle_command have a branch for
KnownActions == {"get_flight_info", "do_get", "heartbeat"}

\* variant: an unrecognised action is answered with an error frame
UnknownReply_ErrorFrame(t, r) == <<ErrorFrame(t, r)>>

\* the frames sent for a command no branch matches: none
UnknownReply(t, r) == <<>>

\* a command with any other action: no branch matches and the handler returns
HandleUnknown(r) ==
    /\ tasks[r].pc = "start"
    /\ tasks[r].action \notin KnownActions
    /\ sent' = sent \o UnknownReply(tasks[r], r)
    /\ tasks' = [tasks EXCEPT ![r].pc = "done"]
    /\ UNCHANGED <<configVars, poolVars, channels, running, pc, websocket, openConns, registered, responded,
                   inbox, loader, nreq, plan>>

(***************************************************************************)
(* The specification of one connector: a pool of one WebSocket worker, or  *)
(* the gRPC connector.                                                     *)
(***************************************************************************)
Init ==
    /\ transport \in {"ws", "grpc"}
    /\ parallel_connections = 1
    /\ PARALLEL_PARTITIONS = TRUE
    /\ WorkersConstructed
    /\ PoolRunning
    /\ \E tbl \in StreamTables : loader = [table |-> tbl, current_dataset |-> tbl.id]
    /\ plan = IdlePlan

Next ==
    \/ \E w \in ActiveWorkers : Start(w)
    \/ \E w \in ActiveWorkers : Stop(w)
    \/ \E w \in ActiveWorkers : Connect(w)
    \/ \E w \in ActiveWorkers : ConnectFail(w)
    \/ \E w \in ActiveWorkers : Wake(w)
    \/ \E w \in ActiveWorkers : RegisterRecv(w)
    \/ \E w \in ActiveWorkers : ConnectionLost(w)
    \/ \E w \in ActiveWorkers : ReadFails(w)
    \/ \E w \in ActiveWorkers : Recv(w)
    \/ \E w \in ActiveWorkers, status \in {"ok", "error"} : GatewayRespond(w, status)
    \/ \E w \in ActiveWorkers, m \in Commands(nreq + 1) \cup {Garbage} : GatewaySend(w, m)
    \/ \E r \in ReqIds : HandleDoGetStart(r)
    \/ \E r \in ReqIds, raises \in BOOLEAN : HandleDoGetFetch(r, raises)
    \/ \E r \in ReqIds : HandleDoGetStream(r)
    \/ \E r \in ReqIds : HandleGetFlightInfo(r)
    \/ \E r \in ReqIds : HandleHeartbeat(r)

Spec == Init /\ [][Next]_vars

\* asyncio.sleep(RECONNECT_DELAY) returns: a sleeping worker is resumed
FairSpec == Spec /\ \A w \in Workers : WF_vars(Wake(w))

\* the event loop resumes a worker whose awaited read has a result: a message
\* that arrived (RegisterRecv) or the exception of a closed connection
\* (ReadFails); and it resumes a sleeping worker
FairReadSpec ==
    Spec /\ \A w \in Workers :
                /\ WF_vars(Wake(w))
                /\ WF_vars(RegisterRecv(w))
                /\ WF_vars(ReadFails(w))

(***************************************************************************)
(* The same connector under the commands that are no do_get: heartbeats   *)
(* with and without a timestamp, get_flight_info with the descriptors of   *)
(* FlightDescriptors, and commands whose action no branch matches.         *)
(***************************************************************************)
\* actions of commands that are none of get_flight_info, do_get, heartbeat;
\* "" is a command without an action
UnknownActions == {"cancel", ""}

HeartbeatBodies ==
    {JObj(<<>>), JObj(<<[k |-> STR_timestamp, v |-> JInt(1700000000)]>>)}

\* no descriptor; an empty one; a row count; the row count "0"; a row count
\* that is no number; a file of the datasets directory; a name that is no
\* file, without a row count, with one, and with the row count "3000"
FlightDescriptors ==
    {JNull, JObj(<<>>),
     JObj(<<[k |-> STR_rows, v |-> JInt(3000)]>>),
     JObj(<<[k |-> STR_rows, v |-> JStr(<<48>>)]>>),
     JObj(<<[k |-> STR_rows, v |-> JStr(STR_abc)]>>),
     JObj(<<[k |-> STR_path, v |-> JArr(<<[k |-> <<>>, v |-> JStr(STR_data_csv)]>>)]>>),
     JObj(<<[k |-> STR_path, v |-> JArr(<<[k |-> <<>>, v |-> JStr(STR_nofile)]>>)]>>),
     JObj(<<[k |-> STR_path, v |-> JArr(<<[k |-> <<>>, v |-> JStr(STR_nofile)]>>)],
            [k |-> STR_rows, v |-> JInt(3000)]>>),
     JObj(<<[k |-> STR_path, v |-> JArr(<<[k |-> <<>>, v |-> JStr(STR_nofile)]>>)],
            [k |-> STR_rows, v |-> JStr(<<51, 48, 48, 48>>)]>>)}

ControlCommands(request_id) ==
    {Message("command", "", a, request_id, JNull) : a \in UnknownActions}
    \cup {[Message("command", "", "heartbeat", request_id, JNull) EXCEPT !.body = b] :
            b \in HeartbeatBodies}
    \cup {[Message("command", "", "get_flight_info", request_id, JNull) EXCEPT !.body = b] :
            b \in FlightDescriptors}

NextCmd ==
    \/ \E w \in ActiveWorkers : Start(w)
    \/ \E w \in ActiveWorkers : Stop(w)
    \/ \E w \in ActiveWorkers : Connect(w)
    \/ \E w \in ActiveWorkers : ConnectFail(w)
    \/ \E w \in ActiveWorkers : Wake(w)
    \/ \E w \in ActiveWorkers : RegisterRecv(w)
    \/ \E w \in ActiveWorkers : ConnectionLost(w)
    \/ \E w \in ActiveWorkers : ReadFails(w)
    \/ \E w \in ActiveWorkers : Recv(w)
    \/ \E w \in ActiveWorkers, status \in {"ok", "error"} : GatewayRespond(w, status)
    \/ \E w \in ActiveWorkers, m \in ControlCommands(nreq + 1) : GatewaySend(w, m)
    \/ \E r \in ReqIds : HandleGetFlightInfo(r)
    \/ \E r \in ReqIds : HandleHeartbeat(r)
    \/ \E r \in ReqIds : HandleUnknown(r)

SpecCmd == Init /\ [][NextCmd]_vars

(***************************************************************************)
(* The pool: ArrowConnector with MaxWorkers WebSocket workers, from its    *)
(* construction on.  stop() is called from outside the event loop (the     *)
(* service's stop callback), so it lands between any two steps.            *)
(***************************************************************************)
\* ArrowConnector.__init__: no worker exists yet
InitPool ==
    /\ transport = "ws"
    /\ parallel_connections = MaxWorkers
    /\ PARALLEL_PARTITIONS = TRUE
    /\ WorkersConstructed
    /\ workers = {}
    /\ stop_called = FALSE
    /\ pool_returned = FALSE
    /\ \E tbl \in StreamTables : loader = [table |-> tbl, current_dataset |-> tbl.id]
    /\ plan = IdlePlan

\* ArrowConnector.run(): the workers are created and their connect_and_run()
\* coroutines are handed to asyncio.gather; none of them has run yet
PoolRun ==
    /\ workers = {}
    /\ workers' = 1..parallel_connections
    /\ UNCHANGED <<configVars, workerVars, channels, stop_called, pool_returned, loader, plan>>

\* ArrowConnector.stop(): w.stop() for every worker of self.workers
PoolStop ==
    /\ ~stop_called
    /\ stop_called' = TRUE
    /\ running' = [w \in Workers |-> IF w \in workers THEN FALSE ELSE running[w]]
    /\ UNCHANGED <<configVars, workers, pool_returned, pc, websocket, openConns, channels,
                   registered, responded, inbox, tasks, sent, loader, nreq, plan>>

\* variant: the pool returns as soon as one worker has returned
Gather_First(ws) == \E w \in ws : pc[w] = "exited"

\* `await asyncio.gather(*[w.connect_and_run() for w in self.workers])` is
\* done: every coroutine handed to it has returned
Gather(ws) == \A w \in ws : pc[w] = "exited"

\* ArrowConnector.run() returns
PoolReturn ==
    /\ workers # {}
    /\ ~pool_returned
    /\ Gather(workers)
    /\ pool_returned' = TRUE
    /\ UNCHANGED <<configVars, workerVars, channels, workers, stop_called, loader, plan>>

NextPool ==
    \/ PoolRun
    \/ PoolStop
    \/ PoolReturn
    \/ \E w \in ActiveWorkers : Start(w)
    \/ \E w \in ActiveWorkers : Connect(w)
    \/ \E w \in ActiveWorkers : ConnectFail(w)
    \/ \E w \in ActiveWorkers : Wake(w)
    \/ \E w \in ActiveWorkers : RegisterRecv(w)
    \/ \E w \in ActiveWorkers : ConnectionLost(w)
    \/ \E w \in ActiveWorkers : ReadFails(w)
    \/ \E w \in ActiveWorkers, status \in {"ok", "error"} : GatewayRespond(w, status)

SpecPool == InitPool /\ [][NextPool]_vars

\* the event loop resumes every coroutine that can go on: a worker that was
\* started, whose dial has an outcome, whose sleep is over, whose awaited read
\* has a message or has failed; and run() once gather is done.  What the
\* Gateway and the network do is not in its hands.
FairPoolSpec ==
    /\ SpecPool
    /\ WF_vars(PoolReturn)
    /\ \A w \in Workers :
          /\ WF_vars(Start(w))
          /\ WF_vars(Connect(w) \/ ConnectFail(w))
          /\ WF_vars(Wake(w))
          /\ WF_vars(RegisterRecv(w))
          /\ WF_vars(ReadFails(w))

(***************************************************************************)
(* One connector under do_get commands only, with the tickets of           *)
(* OpenTickets and a resident table of one batch or of more, followed to   *)
(* the end of its first connection.                                        *)
(***************************************************************************)
\* a plain name; partition 1 of 2; partition 5 of 2; partition -2 of 2;
\* partition 3 of 1; a ticket that is a number
OpenTickets ==
    {JStr(STR_sales), EncodeTicket(1, 2, FALSE), EncodeTicket(5, 2, FALSE),
     EncodeTicket(-2, 2, FALSE), EncodeTicket(3, 1, FALSE), JInt(5)}

TicketCommands(request_id) ==
    {Message("command", "", "do_get", request_id, t) : t \in OpenTickets}

TicketTables ==
    {[id |-> "__synthetic__", rows |-> 1000 * N, nbytes |-> 20 * MB * N,
      lens |-> [k \in 1..N |-> 100 + 7 * k]] : N \in 1..MaxStreamBatches}

InitTicket ==
    /\ transport \in {"ws", "grpc"}
    /\ parallel_connections = 1
    /\ PARALLEL_PARTITIONS = TRUE
    /\ WorkersConstructed
    /\ PoolRunning
    /\ \E tbl \in TicketTables : loader = [table |-> tbl, current_dataset |-> tbl.id]
    /\ plan = IdlePlan

NextTicket ==
    \/ \E w \in ActiveWorkers : Start(w)
    \/ \E w \in ActiveWorkers : Connect(w)
    \/ \E w \in ActiveWorkers : RegisterRecv(w)
    \/ \E w \in ActiveWorkers : ConnectionLost(w)
    \/ \E w \in ActiveWorkers : ReadFails(w)
    \/ \E w \in ActiveWorkers : Recv(w)
    \/ \E w \in ActiveWorkers, status \in {"ok", "error"} : GatewayRespond(w, status)
    \/ \E w \in ActiveWorkers, m \in TicketCommands(nreq + 1) : GatewaySend(w, m)
    \/ \E r \in ReqIds : HandleDoGetStart(r)
    \/ \E r \in ReqIds, raises \in BOOLEAN : HandleDoGetFetch(r, raises)
    \/ \E r \in ReqIds : HandleDoGetStream(r)

SpecTicket == InitTicket /\ [][NextTicket]_vars

(***************************************************************************)
(* The shared loader: data_loader is one object of the module, used by     *)
(* every handler of every worker.  The WebSocket pool of MaxWorkers        *)
(* workers, or the gRPC connector, under do_get commands and               *)
(* get_flight_info commands that name the file of the datasets directory,  *)
(* followed to the end of each worker's first connection.                  *)
(***************************************************************************)
SharedCommands(request_id) ==
    {Message("command", "", "do_get", request_id, JStr(STR_sales)),
     [Message("command", "", "get_flight_info", request_id, JNull)
        EXCEPT !.body = JObj(<<[k |-> STR_path,
                                v |-> JArr(<<[k |-> <<>>, v |-> JStr(STR_data_csv)]>>)]>>)]}

InitShared ==
    /\ transport \in {"ws", "grpc"}
    /\ parallel_connections = IF transport = "ws" THEN MaxWorkers ELSE 1
    /\ PARALLEL_PARTITIONS = TRUE
    /\ WorkersConstructed
    /\ PoolRunning
    /\ \E tbl \in StreamTables : loader = [table |-> tbl, current_dataset |-> tbl.id]
    /\ plan = IdlePlan

NextShared ==
    \/ \E w \in ActiveWorkers : Start(w)
    \/ \E w \in ActiveWorkers : Connect(w)
    \/ \E w \in ActiveWorkers : RegisterRecv(w)
    \/ \E w \in ActiveWorkers : ConnectionLost(w)
    \/ \E w \in ActiveWorkers : ReadFails(w)
    \/ \E w \in ActiveWorkers : Recv(w)
    \/ \E w \in ActiveWorkers : GatewayRespond(w, "ok")
    \/ \E w \in ActiveWorkers, m \in SharedCommands(nreq + 1) : GatewaySend(w, m)
    \/ \E r \in ReqIds : HandleDoGetStart(r)
    \/ \E r \in ReqIds : HandleDoGetFetch(r, FALSE)
    \/ \E r \in ReqIds : HandleDoGetStream(r)
    \/ \E r \in ReqIds : HandleGetFlightInfo(r)

SpecShared == InitShared /\ [][NextShared]_vars

(***************************************************************************)
(* CLAIMS                                                                  *)
(***************************************************************************)
RECURSIVE ConcatSlices(_)
ConcatSlices(outs) ==
    IF outs = <<>> THEN <<>> ELSE Head(outs).batches \o ConcatSlices(Tail(outs))

IsContiguous(slice, all) ==
    \E a \in 1..(Len(all) + 1), b \in 0..Len(all) : slice = SubSeq(all, a, b)

\* C1 (as claimed): for every batch count N >= 1 and partition count P >= 1 the
\* slices do_get selects for p = 0..P-1 are each contiguous and, concatenated in
\* order of p, equal the full ordered batch list.
C1_SlicesCoverExactly ==
    plan.kind = "partitions" =>
        /\ \A k \in 1..Len(plan.out) :
              plan.out[k].ok /\ IsContiguous(plan.out[k].batches, GetRecordBatches(loader.table))
        /\ plan.p = plan.P => ConcatSlices(plan.out) = GetRecordBatches(loader.table)

C3_PartitionCountMonotone ==
    plan.kind = "info" =>
        /\ \A k \in 1..Len(plan.info) :
              LET b == plan.info[k].total_bytes
                  n == plan.info[k].partitions
              IN /\ n \in {1, 2, 4, 8}
                 /\ ~PARALLEL_PARTITIONS => n = 1
                 /\ PARALLEL_PARTITIONS =>
                       /\ b < 10 * MB => n = 1
                       /\ (b >= 10 * MB /\ b < 50 * MB) => n = 2
                       /\ (b >= 50 * MB /\ b < 100 * MB) => n = 4
                       /\ b >= 100 * MB => n = 8
        /\ \A j, k \in 1..Len(plan.info) :
              plan.info[j].total_bytes <= plan.info[k].total_bytes
                  => plan.info[j].partitions <= plan.info[k].partitions

C3_Witness ==
    /\ plan.kind = "info"
    /\ PARALLEL_PARTITIONS
    /\ Len(plan.info) = 2
    /\ plan.info[1].total_bytes = 10 * MB - 1
    /\ plan.info[1].partitions = 1
    /\ plan.info[2].total_bytes = 10 * MB
    /\ plan.info[2].partitions = 2

About80MB(b) == b >= 75 * MB /\ b <= 85 * MB

\* C7 (as claimed): with partitioning enabled, get_flight_info for a resident
\* table of about 80MB reports partition_count = 2.
C7_About80MBGivesTwo ==
    (plan.kind = "info" /\ PARALLEL_PARTITIONS) =>
        \A k \in 1..Len(plan.info) :
            About80MB(plan.info[k].total_bytes) => plan.info[k].partitions = 2

\* C7 (amended): with partitioning enabled, get_flight_info for a resident
\* table of about 80MB reports partition_count = 4.
C7_About80MBGivesFour ==
    (plan.kind = "info" /\ PARALLEL_PARTITIONS) =>
        \A k \in 1..Len(plan.info) :
            About80MB(plan.info[k].total_bytes) => plan.info[k].partitions = 4

C7_Witness ==
    /\ plan.kind = "info"
    /\ PARALLEL_PARTITIONS
    /\ Len(plan.info) = 1
    /\ plan.info[1].total_bytes = 80 * MB

(***************************************************************************)
(* Frames of one request, as the Gateway receives them.                    *)
(***************************************************************************)
Last(s) == s[Len(s)]
FramesBy(r) == SelectSeq(sent, LAMBDA f : f.by = r)
IsPayload(f) == f.kind \in {"binary", "arrow_chunk"}
IsTerminal(f) == f.kind \in {"stream_end", "error"}
IsSuccessEnd(f) == f.kind = "stream_end" /\ ~f.error
DoGets == {r \in ReqIds : tasks[r].action = "do_get"}

RECURSIVE SumLen(_)
SumLen(fs) == IF fs = <<>> THEN 0 ELSE Head(fs).batch.len + SumLen(Tail(fs))

\* the frames of request r are stream_start, every batch of its slice in
\* slice order, and the success stream_end
CompleteStream(r) ==
    LET fs == FramesBy(r)
        slice == tasks[r].batches_to_send
    IN /\ Len(fs) = Len(slice) + 2
       /\ fs[1].kind = "stream_start"
       /\ \A i \in 1..Len(slice) : IsPayload(fs[i + 1]) /\ fs[i + 1].batch = slice[i]
       /\ IsSuccessEnd(Last(fs))

\* C4: a frame other than the register command is sent on a connection only
\* after the registration response with status ok was received on it.
C4_HandshakeGating ==
    [][(Len(sent') > Len(sent) /\ Last(sent').kind # "register")
        => (registered[Last(sent').w] /\ websocket[Last(sent').w] = Last(sent').conn)]_vars

\* C5: a connection (or a dial) that ends while the running flag is set
\* leaves the worker sleeping the reconnect delay, a sleeping worker dials
\* again unless it was stopped meanwhile, and the run loop returns only with
\* the running flag cleared.
InIteration(w) == pc[w] \in {"connecting", "registering", "active"}

C5_ReconnectLiveness ==
    /\ [](\A w \in Workers : pc[w] = "exited" => ~running[w])
    /\ [][\A w \in Workers :
            (InIteration(w) /\ ~InIteration(w)' /\ running[w]) => pc'[w] = "sleeping"]_vars
    /\ \A w \in Workers : (pc[w] = "sleeping") ~> (pc[w] = "connecting" \/ ~running[w])

\* a running worker dials again after two of its connections have ended
C5_Witness ==
    \E w \in Workers :
        running[w] /\ pc[w] = "connecting" /\ websocket[w] >= 2 /\ openConns[w] = {}

\* C6: a step in which one do_get fails while it fetches or sends its batches
\* changes no other request, closes nothing and drops no command in flight;
\* and every do_get that ended without failing sent its whole slice and its
\* success stream_end.
FailsInStream(r) ==
    /\ tasks[r].pc \in {"fetch", "stream"}
    /\ ~tasks[r].failed
    /\ tasks'[r].failed

C6_RequestIsolation ==
    /\ [][\A r \in ReqIds :
            FailsInStream(r)
                => /\ \A q \in ReqIds \ {r} : tasks'[q] = tasks[q]
                   /\ UNCHANGED <<pc, openConns, inbox, registered>>]_vars
    /\ [](\A q \in DoGets : tasks[q].pc = "done" /\ ~tasks[q].failed => CompleteStream(q))

\* two do_gets of one connection, the first failed after it had started and
\* reported it, the second then completed its stream
C6_Witness ==
    \E r, q \in DoGets :
        /\ r # q
        /\ tasks[r].worker = tasks[q].worker /\ tasks[r].conn = tasks[q].conn
        /\ tasks[r].failed /\ Len(FramesBy(r)) >= 2 /\ Last(FramesBy(r)).error
        /\ tasks[q].pc = "done" /\ ~tasks[q].failed /\ CompleteStream(q)
        /\ Len(tasks[q].batches_to_send) >= 2
        /\ \E i, j \in 1..Len(sent) :
            /\ i < j
            /\ sent[i].by = q /\ sent[i].kind = "stream_start"
            /\ sent[j].by = r /\ sent[j].error
        /\ Last(sent).by = q

\* C8: the total_bytes of a success stream_end frame is the sum of the lengths
\* of the batches sent for that request, which are the batches of the
\* requested slice of the resident table.
C8_TotalBytesIsSumOfPayloads ==
    \A i \in 1..Len(sent) :
        IsSuccessEnd(sent[i]) =>
            LET r == sent[i].by
                payloads == SelectSeq(FramesBy(r), IsPayload)
                sl == SliceBatches(GetRecordBatches(loader.table),
                                   tasks[r].partition, tasks[r].total_partitions)
            IN /\ sent[i].total_bytes = SumLen(payloads)
               /\ sl.ok
               /\ [k \in 1..Len(payloads) |-> payloads[k].batch] = sl.batches

\* a success stream_end after two batches of different lengths
C8_Witness ==
    \E i \in 1..Len(sent) :
        /\ IsSuccessEnd(sent[i])
        /\ LET payloads == SelectSeq(FramesBy(sent[i].by), IsPayload)
           IN /\ Len(payloads) = 2
              /\ payloads[1].batch.len # payloads[2].batch.len
              /\ sent[i].total_bytes = payloads[1].batch.len + payloads[2].batch.len

\* C9: the frames of one do_get are one stream_start, then batches of the
\* slice in slice order, then at most one terminal frame, which is the last;
\* the success stream_end comes only after the whole slice.
C9_FrameOrder ==
    \A r \in DoGets :
        LET fs == FramesBy(r)
            slice == tasks[r].batches_to_send
        IN Len(fs) > 0 =>
            /\ fs[1].kind = "stream_start"
            /\ \A i \in 2..Len(fs) :
                \/ IsPayload(fs[i]) /\ i - 1 <= Len(slice) /\ fs[i].batch = slice[i - 1]
                \/ i = Len(fs) /\ IsTerminal(fs[i])
            /\ IsSuccessEnd(Last(fs)) => Len(fs) = Len(slice) + 2

\* a do_get that sent stream_start, two batches and stream_end
C9_Witness ==
    \E r \in DoGets :
        /\ Len(FramesBy(r)) = 4
        /\ IsPayload(FramesBy(r)[2]) /\ IsPayload(FramesBy(r)[3])
        /\ FramesBy(r)[2].batch.index < FramesBy(r)[3].batch.index
        /\ IsSuccessEnd(FramesBy(r)[4])

\* C10: on a WebSocket connection, between the stream_start and the terminal
\* frame of one do_get no binary frame and no stream_start of another do_get
\* is sent.
C10_OneStreamPerConnection ==
    transport = "ws" =>
        \A i, j \in 1..Len(sent) :
            (/\ i < j
             /\ sent[i].kind = "stream_start"
             /\ sent[j].kind \in {"binary", "stream_start"}
             /\ sent[j].by # sent[i].by
             /\ sent[j].w = sent[i].w /\ sent[j].conn = sent[i].conn)
            => \E k \in (i + 1)..(j - 1) : sent[k].by = sent[i].by /\ IsTerminal(sent[k])

\* C11: a do_get that fails while it fetches, slices or sends its batches
\* reports it with a stream_end frame that carries the error, as its last
\* frame.
C11_FailureEmitsStreamEnd ==
    \A r \in DoGets :
        (tasks[r].failed /\ FramesBy(r) # <<>>)
            => /\ Last(FramesBy(r)).kind = "stream_end"
               /\ Last(FramesBy(r)).error

\* C12: decoding the ticket never fails the do_get: whatever the ticket value,
\* no exception leaves the handler before the stream_start frame.
C12_DecodingNeverFails ==
    plan.kind \in {"partitions", "plain", "odd"} =>
        \A k \in 1..Len(plan.out) : ~plan.out[k].raised

\* C13: the step that handles a command whose action is none of
\* get_flight_info, do_get, heartbeat sends no frame, leaves the resident
\* dataset as it is, and leaves the worker's connection and state as they are.
C13_UnknownActionIgnored ==
    [][\A r \in ReqIds :
          (/\ tasks[r].pc = "start"
           /\ tasks[r].action \notin KnownActions
           /\ tasks'[r].pc = "done")
              => /\ sent' = sent
                 /\ loader' = loader
                 /\ pc' = pc
                 /\ openConns' = openConns
                 /\ websocket' = websocket]_vars

\* C13 witness: a command with an unknown action was handled on a connection
\* that is Active and open, and no frame but the register frame was ever sent
C13_Witness ==
    \E r \in ReqIds :
        /\ tasks[r].action = "cancel"
        /\ tasks[r].pc = "done"
        /\ pc[tasks[r].worker] = "active"
        /\ IsOpen(tasks[r].worker)
        /\ \A i \in 1..Len(sent) : sent[i].kind = "register"

\* the command of request r carried a timestamp
HasTimestamp(r) == \E i \in 1..Len(tasks[r].body.o) : tasks[r].body.o[i].k = STR_timestamp

\* C14: the step that answers a heartbeat sends exactly one frame, a heartbeat
\* frame with the worker's tenant id and the timestamp of the command, and it
\* changes neither the resident dataset nor the worker's connection or state.
C14_HeartbeatEcho ==
    [][\A r \in ReqIds :
          (/\ tasks[r].pc = "start"
           /\ tasks[r].action = "heartbeat"
           /\ tasks'[r].pc = "done"
           /\ ~tasks'[r].failed)
              => /\ Len(sent') = Len(sent) + 1
                 /\ LET f == sent'[Len(sent')] IN
                       /\ SubSeq(sent', 1, Len(sent)) = sent
                       /\ f.kind = "heartbeat"
                       /\ f.by = r
                       /\ f.tenant_id = TENANT_ID
                       /\ HasTimestamp(r) =>
                             f.timestamp = DictGet(tasks[r].body, STR_timestamp, JNull)
                 /\ loader' = loader
                 /\ pc' = pc
                 /\ openConns' = openConns
                 /\ websocket' = websocket]_vars

\* C14 witness: a heartbeat that carried a timestamp was answered on a
\* connection that is Active and open
C14_Witness ==
    \E r \in ReqIds :
        /\ tasks[r].action = "heartbeat"
        /\ HasTimestamp(r)
        /\ tasks[r].pc = "done"
        /\ ~tasks[r].failed
        /\ Len(FramesBy(r)) = 1
        /\ pc[tasks[r].worker] = "active"
        /\ IsOpen(tasks[r].worker)

\* the Gateway's answer to the register command of w's connection was read
\* and its status was not ok
Refused(w) ==
    /\ IsOpen(w)
    /\ responded[w]
    /\ ~registered[w]
    /\ \A i \in 1..Len(inbox[w]) : inbox[w][i].type # "register_response"

\* C15: a worker whose registration was answered with a status other than ok
\* is not Active on that connection.
C15_RefusedNeverActive ==
    \A w \in ActiveWorkers : Refused(w) => pc[w] # "active"

\* C16: a worker that waits for the registration response leaves the
\* Registering state.
C16_RegisteringEnds ==
    \A w \in Workers : (pc[w] = "registering") ~> (pc[w] # "registering")

\* C17: once stop() of the pool has been called, no worker's running flag is
\* set and no worker enters a new connection attempt.
C17_StopIsFinal ==
    [][stop_called =>
          \A w \in Workers :
              /\ ~running'[w]
              /\ pc'[w] = "connecting" => pc[w] = "connecting"]_vars

\* C18: the step in which a command handler fails leaves every worker's state,
\* its connection and the messages it has still to read as they are.
C18_HandlerFailureContained ==
    [][\A r \in ReqIds :
          (~tasks[r].failed /\ tasks'[r].failed)
              => /\ pc' = pc
                 /\ openConns' = openConns
                 /\ inbox' = inbox]_vars

\* C19: while a handler is suspended between two batches of its stream, a
\* message that has arrived on the worker's Active, open connection can be
\* read and dispatched at once.
C19_ReadNeverWaits ==
    \A w \in ActiveWorkers :
        (/\ pc[w] = "active"
         /\ IsOpen(w)
         /\ inbox[w] # <<>>
         /\ \E r \in ReqIds : tasks[r].worker = w /\ tasks[r].pc = "stream")
            => ENABLED Recv(w)

\* the frames sent on connection c of worker w, in order
ConnFrames(w, c) == SelectSeq(sent, LAMBDA f : f.w = w /\ f.conn = c)

\* C20: on every connection a worker has established, the first frame it sent
\* is the register command and no other frame of the connection is one.
C20_RegisterOnceAndFirst ==
    \A w \in Workers : \A c \in 1..websocket[w] :
        LET fs == ConnFrames(w, c) IN
        /\ fs # <<>>
        /\ fs[1].kind = "register"
        /\ \A i \in 2..Len(fs) : fs[i].kind # "register"

\* C20 witness: on a worker's second connection the register command is
\* followed by a frame of a request that was received on the first connection
C20_Witness ==
    \E w \in Workers :
        LET fs == ConnFrames(w, 2) IN
        /\ Len(fs) >= 2
        /\ fs[1].kind = "register"
        /\ \E i \in 2..Len(fs) : fs[i].by # 0 /\ tasks[fs[i].by].conn = 1

\* C21: a worker enters a connection attempt only from its start (the first
\* attempt, with no delay before it) or from the reconnect delay; the delay is
\* entered only at the end of an attempt, and only with running set; and an
\* attempt that ends with running set is followed by the delay.
C21_DelayBetweenAttempts ==
    [][\A w \in Workers :
          /\ (pc'[w] = "connecting" /\ pc[w] # "connecting")
                => pc[w] \in {"init", "sleeping"}
          /\ pc[w] = "init" => pc'[w] \in {"init", "connecting"}
          /\ (pc'[w] = "sleeping" /\ pc[w] # "sleeping")
                => pc[w] \in {"connecting", "registering", "active"} /\ running[w]
          /\ (pc[w] \in {"connecting", "registering", "active"}
                /\ pc'[w] \notin {"connecting", "registering", "active"})
                => pc'[w] = (IF running[w] THEN "sleeping" ELSE "exited")]_vars

\* C21 witness: a worker dials again after its first connection ended
C21_Witness ==
    \E w \in Workers :
        /\ pc[w] = "connecting"
        /\ websocket[w] = 1
        /\ running[w]

\* the connection a do_get was received on is still the worker's open one
OnOpenConnection(r) ==
    /\ tasks[r].conn = websocket[tasks[r].worker]
    /\ IsOpen(tasks[r].worker)

\* C22: a do_get whose handler has ended, on a connection that is still open,
\* has sent exactly one terminal frame (a stream_end or an error frame), and
\* no do_get has sent two.
C22_ExactlyOneTerminal ==
    \A r \in ReqIds :
        tasks[r].action = "do_get" =>
            LET n == Len(SelectSeq(FramesBy(r), IsTerminal)) IN
            /\ n <= 1
            /\ (tasks[r].pc = "done" /\ OnOpenConnection(r)) => n = 1

\* C23: a get_flight_info whose handler has ended, on a connection that is
\* still open, has been answered with exactly one frame of its request.
C23_FlightInfoAnswered ==
    \A r \in ReqIds :
        (/\ tasks[r].action = "get_flight_info"
         /\ tasks[r].pc = "done"
         /\ OnOpenConnection(r))
            => Len(FramesBy(r)) = 1

\* C24: every frame a handler sends for its request, other than a binary
\* WebSocket frame, carries the request id of the command that caused it.
C24_RequestIdEchoed ==
    \A i \in 1..Len(sent) :
        (sent[i].by # 0 /\ sent[i].kind # "binary") => sent[i].req = sent[i].by

\* C25: every stream_start frame carries an integer partition index and an
\* integer partition count with 0 <= index < count.
C25_PartitionInRange ==
    \A i \in 1..Len(sent) :
        sent[i].kind = "stream_start" =>
            /\ sent[i].partition.t = "int"
            /\ sent[i].total_partitions.t = "int"
            /\ 0 <= sent[i].partition.n
            /\ sent[i].partition.n < sent[i].total_partitions.n

\* C26: a do_get that ended with a success stream_end and whose partition
\* count is at most 1, or whose table has at most one batch, has streamed all
\* the batches of the table in order, and its stream_start and stream_end
\* frames report partition 0.
C26_WholeTableAsPartitionZero ==
    \A r \in ReqIds :
        LET fs == FramesBy(r)
            all == GetRecordBatches(loader.table)
            payload == SelectSeq(fs, IsPayload)
        IN (/\ tasks[r].action = "do_get"
            /\ fs # <<>>
            /\ IsSuccessEnd(Last(fs))
            /\ \/ Len(all) <= 1
               \/ (tasks[r].total_partitions.t = "int" /\ tasks[r].total_partitions.n <= 1))
              => /\ [k \in 1..Len(payload) |-> payload[k].batch] = all
                 /\ fs[1].partition = JInt(0)
                 /\ Last(fs).partition = JInt(0)

\* C27: the batches a do_get streams belong to the dataset whose schema its
\* stream_start frame carries, under every interleaving of the handlers.
C27_OneSnapshot ==
    \A r \in ReqIds :
        LET fs == FramesBy(r) IN
        (tasks[r].action = "do_get" /\ fs # <<>>)
            => \A k \in 1..Len(fs) : IsPayload(fs[k]) => fs[k].batch.table = fs[1].schema

\* C28: a step of a handler on one worker leaves the resident dataset as it
\* is whenever a do_get of another worker of the pool is in progress, so
\* that no command handled on one worker changes what the handlers of another
\* worker read.
C28_WorkersShareNothing ==
    [][\A r \in ReqIds :
          (/\ tasks[r].pc # "none"
           /\ tasks'[r] # tasks[r]
           /\ \E q \in ReqIds : /\ tasks[q].action = "do_get"
                                /\ Running(q)
                                /\ tasks[q].worker # tasks[r].worker)
             => loader' = loader]_vars

\* C29: every frame a handler sends goes out on the connection its command
\* was received on: once that connection is gone the handler sends nothing
\* on the connection the worker opened in its place.
C29_NoFrameAfterDrop ==
    \A i \in 1..Len(sent) :
        sent[i].by # 0 => sent[i].conn = tasks[sent[i].by].conn

\* the connections of worker w that are open: its sockets (ws), its channels
\* (grpc)
OpenConnections(w) == IF transport = "ws" THEN openConns[w] ELSE channels[w]

\* C30: a worker has at most one open connection, and none when it begins a
\* new attempt: the connection of the previous iteration has been closed.
C30_ConnectionEndsWithIteration ==
    \A w \in Workers :
        /\ Cardinality(OpenConnections(w)) <= 1
        /\ pc[w] = "connecting" => OpenConnections(w) = {}

\* the descriptor of request r gives no dataset name, or the name "sales",
\* and no row count
NamesNothing(r) ==
    LET d == IF tasks[r].body.t = "null" THEN JObj(<<>>) ELSE tasks[r].body
        path == DictGet(d, STR_path, JArr(<<>>))
    IN /\ DictGet(d, STR_rows, JNull) = JNull
       /\ \/ ~Truthy(path)
          \/ (path.t = "arr" /\ path.o[1].v = JStr(STR_sales))

\* C31: the step that handles a get_flight_info whose descriptor gives
\* neither a dataset name (other than "sales") nor a row count leaves the
\* resident dataset as it is whenever a table is resident.
C31_ResidentDatasetKept ==
    [][\A r \in ReqIds :
          (/\ tasks[r].action = "get_flight_info"
           /\ tasks[r].pc = "start"
           /\ tasks'[r].pc = "done"
           /\ NamesNothing(r)
           /\ loader.table # NoTable)
             => loader' = loader]_vars

\* the dataset name the descriptor of request r gives, when it gives one
\* other than "sales": <<name>>, else << >>
NamedDataset(r) ==
    LET d == IF tasks[r].body.t = "null" THEN JObj(<<>>) ELSE tasks[r].body
        path == DictGet(d, STR_path, JArr(<<>>))
    IN IF path.t = "arr" /\ Truthy(path) /\ path.o[1].v.t = "str"
          /\ Truthy(path.o[1].v) /\ path.o[1].v # JStr(STR_sales)
       THEN <<path.o[1].v.s>> ELSE <<>>

\* the row count the descriptor of request r asks for, one million when it
\* gives none
RequestedRows(r) ==
    LET rows == DictGet(tasks[r].body, STR_rows, JNull)
    IN IF PyInt(rows).st = "ok" THEN PyInt(rows).n ELSE 1000000

\* C32: the step that handles, on an open connection, a get_flight_info
\* naming a dataset other than "sales" makes that dataset resident when the
\* provider can load it; when it cannot, the synthetic dataset of the
\* requested row count (one million without a row count) becomes resident and
\* the flight_info response describing it is sent.
C32_FallbackToSynthetic ==
    [][\A r \in ReqIds :
          (/\ tasks[r].action = "get_flight_info"
           /\ tasks[r].pc = "start"
           /\ tasks'[r] # tasks[r]
           /\ NamedDataset(r) # <<>>
           /\ SendOk(tasks[r]))
             => LET f == LoadFromFile(loader, NamedDataset(r)[1]) IN
                IF f.success THEN loader' = f.loader
                ELSE /\ loader'.current_dataset = "__synthetic__"
                     /\ loader'.table.rows = RequestedRows(r)
                     /\ Len(sent') = Len(sent) + 1
                     /\ sent'[Len(sent')].kind = "flight_info"
                     /\ sent'[Len(sent')].by = r
                     /\ sent'[Len(sent')].dataset = "__synthetic__"]_vars

\* C33: run() creates all configured workers, it has returned only when the
\* connect loop of every worker has returned, and a step in which one worker
\* ends an attempt or returns changes nothing of another worker.
C33_PoolWaitsForAll ==
    /\ [](/\ workers \in {{}, 1..parallel_connections}
          /\ pool_returned => (workers # {} /\ \A w \in workers : pc[w] = "exited"))
    /\ [][\A w \in Workers :
            (pc'[w] # pc[w] /\ pc'[w] \in {"sleeping", "exited"})
                => \A v \in Workers \ {w} :
                      /\ pc'[v] = pc[v]
                      /\ running'[v] = running[v]
                      /\ openConns'[v] = openConns[v]]_vars

\* a pool of two workers whose run() has returned; one of the workers never
\* got a connection
C33_Witness ==
    /\ pool_returned
    /\ Cardinality(workers) = MaxWorkers
    /\ \E w \in workers : websocket[w] = 0
    /\ \E w \in workers : websocket[w] > 0

\* C34: once stop() has been called on a pool whose workers have all entered
\* their connect loops (so that every running flag is cleared), the pool's
\* run() eventually returns: every worker has left its loop.
C34_StopTerminates ==
    (/\ stop_called
     /\ workers # {}
     /\ \A w \in workers : pc[w] # "init" /\ ~running[w]) ~> pool_returned

\* C35: a do_get whose ticket decodes to a partition count above 1 and a
\* partition index that is negative or not below the count sends no payload
\* frame.
C35_OutOfRangeSendsNothing ==
    \A r \in ReqIds :
        LET t == tasks[r] IN
        (/\ t.action = "do_get"
         /\ t.partition.t = "int"
         /\ t.total_partitions.t = "int"
         /\ t.total_partitions.n > 1
         /\ t.partition.n \notin 0..(t.total_partitions.n - 1))
            => SelectSeq(FramesBy(r), IsPayload) = <<>>

\* the numbers of batches of the slices of a finished run over all partitions
SliceSizes == [k \in 1..Len(plan.out) |-> Len(plan.out[k].batches)]

\* C36: for a table of N > 1 batches requested in P > 1 partitions, every
\* slice has floor(N/P) or ceil(N/P) batches, and when P > N exactly N slices
\* have one batch and the others none.
C36_BalancedSlices ==
    LET N == Len(loader.table.lens)
        P == plan.P
    IN (plan.kind = "partitions" /\ plan.p = P /\ N > 1 /\ P > 1)
        => /\ \A k \in 1..P : SliceSizes[k] \in {N \div P, (N + P - 1) \div P}
           /\ P > N => /\ Cardinality({k \in 1..P : SliceSizes[k] = 1}) = N
                        /\ \A k \in 1..P : SliceSizes[k] \in {0, 1}

\* all partitions of a table of fewer batches than partitions were requested
C36_Witness ==
    /\ plan.kind = "partitions"
    /\ plan.p = plan.P
    /\ Len(loader.table.lens) > 1
    /\ plan.P > Len(loader.table.lens)
    /\ \E k \in 1..plan.P : SliceSizes[k] = 0

\* C37: a step of a do_get or heartbeat handler leaves the loader as it is
\* whenever a table is resident: the dataset's name, record count, byte size
\* and batches are those of before.
C37_ReadersKeepDataset ==
    [][\A r \in ReqIds :
          (/\ tasks[r].action \in {"do_get", "heartbeat"}
           /\ tasks'[r] # tasks[r]
           /\ loader.table # NoTable)
             => /\ loader' = loader
                /\ CurrentDataset(loader') = CurrentDataset(loader)
                /\ TotalRecords(loader') = TotalRecords(loader)
                /\ TotalBytes(loader') = TotalBytes(loader)
                /\ GetRecordBatches(loader'.table) = GetRecordBatches(loader.table)]_vars

\* two do_get requests for the two partitions of the resident table have both
\* been streamed to their end
C37_Witness ==
    /\ loader.table # NoTable
    /\ \E r, q \in ReqIds :
          /\ r # q
          /\ tasks[r].action = "do_get" /\ tasks[r].pc = "done" /\ ~tasks[r].failed
          /\ tasks[q].action \in {"do_get", "heartbeat"} /\ tasks[q].pc = "done"
          /\ FramesBy(r) # <<>>
          /\ IsSuccessEnd(Last(FramesBy(r)))

\* C38: in the gRPC connector at most one handler is in progress at a time,
\* the frames of one request are next to each other on the outgoing queue of
\* their connection, and the requests appear there in the order in which
\* their commands arrived.
C38_GrpcOneAtATime ==
    transport = "grpc" =>
        /\ \A r, q \in ReqIds :
              (Running(r) /\ Running(q) /\ tasks[r].worker = tasks[q].worker) => r = q
        /\ \A i, j \in 1..Len(sent) :
              (/\ i < j
               /\ sent[i].by # 0 /\ sent[j].by # 0
               /\ sent[i].w = sent[j].w /\ sent[i].conn = sent[j].conn)
                 => sent[i].by <= sent[j].by

\* the gRPC connector has streamed two do_get requests to their end on one
\* connection
C38_Witness ==
    /\ transport = "grpc"
    /\ \E r, q \in ReqIds :
          /\ r < q
          /\ tasks[r].action = "do_get" /\ tasks[q].action = "do_get"
          /\ tasks[r].conn = tasks[q].conn
          /\ Len(FramesBy(r)) > 2 /\ Len(FramesBy(q)) > 2
          /\ IsSuccessEnd(Last(FramesBy(r))) /\ IsSuccessEnd(Last(FramesBy(q)))
====
